---- MODULE Spec2Model ----
(***************************************************************************)
(* A model of the fingerprinting HTTP/2 client transport of ski-ext        *)
(* (package fetch/http2): the header ordering pipeline of                   *)
(* ClientConn.encodeHeaders, Setting.Valid, and the connection handshake   *)
(* of Transport.newClientConn.                                             *)
(*                                                                         *)
(* Strings are sequences of ASCII codes, so that strings.ToLower, the      *)
(* byte-wise order of Go's string "<" and the split of a Cookie value on   *)
(* ';' are computed and not looked up.                                     *)
(***************************************************************************)
EXTENDS Integers, Sequences, FiniteSets, TLC

VARIABLES
    opt,      \* Transport.opt: the Options the Transport was configured with
    req,      \* the request being encoded by encodeHeaders: <<>> or <<request>>
    lastKvs,  \* the slice the sorter returned to the last encodeHeaders call
    wire,     \* the (name, value) fields the last encodeHeaders call wrote
    wires,    \* every field sequence encodeHeaders wrote for the current request
    vlog,     \* the Setting.Valid calls made: how many, and the last one's result
    t2,       \* the Transport's own configuration fields that newClientConn reads and writes
    cc,       \* the connection newClientConn is working on (a record)
    pc,       \* where the dial / newClientConn sequence stands
    net,      \* what happened on the network, in order (dial, tls, flush, readLoop)
    done,     \* summaries of the connections this Transport finished with
    henc,     \* cc.henc: the fields the connection's HPACK encoder has been given, as a set
    encErr,   \* the error the last encodeHeaders call returned
    rt,       \* one call of Transport.roundTrip: <<>> or <<its record>>
    strm,     \* one call of ClientConn.RoundTrip and its stream: <<>> or <<its record>>
    pool,     \* headerSorterPool: the order maps of the sorters lying in the pool
    dec,      \* one call of Transport.RoundTrip: <<>> or <<its record>>
    ct,       \* a CacheTransport: its Cache and the RoundTrip call in progress
    fd,       \* one call of Fetch.Do: <<>> or <<its record>>
    rr,       \* the roundRobinProxy of a context and the goroutines that call getProxy
    srt       \* the pooled sorters' arrays and the goroutines that encode headers

vars == <<opt, req, lastKvs, wire, wires, vlog, t2, cc, pc, net, done, henc, encErr,
         rt, strm, pool, dec, ct, fd, rr, srt>>

\* the state of the calls above the connection
tripVars == <<rt, strm, pool, dec>>

\* the state of package fetch above the HTTP/2 transport
fetchVars == <<ct, fd, rr, srt>>

(***************************************************************************)
(* Bounds of the model.                                                    *)
(***************************************************************************)
MaxHeaders == 3      \* keys in a request header map
MaxOrderLen == 2     \* entries in Options.HeaderOrder
MaxPHeaderLen == 3   \* entries in Options.PHeaderOrder (the list of TestFingerPrint comes on top)
MaxValues == 2       \* values under one Cookie key
MaxChecks == 2       \* Setting.Valid calls recorded
MaxSettings == 2     \* entries in Options.Settings
MaxPriority == 2     \* entries in Options.PriorityParams
MaxConns == 2        \* connections one Transport opens
MaxPooled == 2       \* sorters lying in headerSorterPool
MaxRoundTrips == 2   \* RoundTrip calls on one CacheTransport
\* the proxies of a roundRobinProxy, the goroutines that call getProxy at the
\* same time, and the calls they make
MaxProxies == 3
MaxCallers == 2
MaxProxyCalls == 4

\* the goroutines that encode headers at the same time
MaxEncoders == 2

\* the calls of sortedKeyValues and sortedKeyValuesBy that are followed
MaxSorts == 2

MaxDoAttempts == 5   \* f.Client.Do calls within one Fetch.Do

(***************************************************************************)
(* Strings.                                                                *)
(***************************************************************************)
S_authority == <<58, 97, 117, 116, 104, 111, 114, 105, 116, 121>>   \* ":authority"
S_method == <<58, 109, 101, 116, 104, 111, 100>>                    \* ":method"
S_path == <<58, 112, 97, 116, 104>>                                 \* ":path"
S_scheme == <<58, 115, 99, 104, 101, 109, 101>>                     \* ":scheme"
S_bogus == <<58, 98, 111, 103, 117, 115>>                           \* ":bogus"
S_trailer == <<116, 114, 97, 105, 108, 101, 114>>                   \* "trailer"
S_host == <<104, 111, 115, 116>>                                    \* "host"
S_content_length ==
    <<99, 111, 110, 116, 101, 110, 116, 45, 108, 101, 110, 103, 116, 104>>
S_connection == <<99, 111, 110, 110, 101, 99, 116, 105, 111, 110>>  \* "connection"
S_proxy_connection ==
    <<112, 114, 111, 120, 121, 45, 99, 111, 110, 110, 101, 99, 116, 105, 111, 110>>
S_transfer_encoding ==
    <<116, 114, 97, 110, 115, 102, 101, 114, 45, 101, 110, 99, 111, 100, 105, 110, 103>>
S_upgrade == <<117, 112, 103, 114, 97, 100, 101>>                   \* "upgrade"
S_keep_alive == <<107, 101, 101, 112, 45, 97, 108, 105, 118, 101>>  \* "keep-alive"
S_user_agent == <<117, 115, 101, 114, 45, 97, 103, 101, 110, 116>>  \* "user-agent"
S_cookie == <<99, 111, 111, 107, 105, 101>>                         \* "cookie"
S_accept == <<97, 99, 99, 101, 112, 116>>                           \* "accept"
S_dnt == <<100, 110, 116>>                                          \* "dnt"
S_GET == <<71, 69, 84>>                                             \* "GET"
S_POST == <<80, 79, 83, 84>>                                        \* "POST"
S_PUT == <<80, 85, 84>>                                             \* "PUT"
S_PATCH == <<80, 65, 84, 67, 72>>                                   \* "PATCH"
S_CONNECT == <<67, 79, 78, 78, 69, 67, 84>>                         \* "CONNECT"
S_https == <<104, 116, 116, 112, 115>>                              \* "https"
S_slash == <<47>>                                                   \* "/"
S_example == <<101, 120, 97, 109, 112, 108, 101, 46, 99, 111, 109>> \* "example.com"
K_Accept == <<65, 99, 99, 101, 112, 116>>                           \* "Accept"
K_Dnt == <<68, 110, 116>>                                           \* "Dnt"
K_Cookie == <<67, 111, 111, 107, 105, 101>>                         \* "Cookie"
K_User_Agent == <<85, 115, 101, 114, 45, 65, 103, 101, 110, 116>>   \* "User-Agent"
K_Host == <<72, 111, 115, 116>>                                     \* "Host"
V_html == <<116, 101, 120, 116, 47, 104, 116, 109, 108>>            \* "text/html"
V_any == <<42, 47, 42>>                                             \* "*/*"
V_1 == <<49>>                                                       \* "1"
V_2 == <<50>>                                                       \* "2"
V_ua == <<117, 97>>                                                 \* "ua"
V_ub == <<117, 98>>                                                 \* "ub"
V_xt == <<120, 45, 116>>                                            \* "x-t"
V_a1 == <<97, 61, 49>>                                              \* "a=1"
V_b2 == <<98, 61, 50>>                                              \* "b=2"
V_c3 == <<99, 61, 51>>                                              \* "c=3"
V_a1_b2 == <<97, 61, 49, 59, 32, 98, 61, 50>>                       \* "a=1; b=2"
V_a1__b2 == <<97, 61, 49, 59, 32, 32, 98, 61, 50>>                  \* "a=1;  b=2"
V_a1b2 == <<97, 61, 49, 59, 98, 61, 50>>                            \* "a=1;b=2"
V_a1semi == <<97, 61, 49, 59>>                                      \* "a=1;"
V_sa1__b2 == <<32, 97, 61, 49, 59, 59, 32, 98, 61, 50>>             \* " a=1;; b=2"
V_sa1 == <<32, 97, 61, 49>>                                         \* " a=1"
V_sb2 == <<32, 98, 61, 50>>                                         \* " b=2"

\* defaultUserAgent, "Go-http-client/2.0"
defaultUserAgent ==
    <<71, 111, 45, 104, 116, 116, 112, 45, 99, 108, 105, 101, 110, 116, 47, 50, 46, 48>>

\* unicode.ToLower on one ASCII byte
ToLowerCh(c) == IF c >= 65 /\ c <= 90 THEN c + 32 ELSE c

\* strings.ToLower
ToLower(s) == [i \in 1..Len(s) |-> ToLowerCh(s[i])]

\* Go's s < t on strings: byte-wise lexicographic order
RECURSIVE StrLess(_, _)
StrLess(s, t) ==
    IF Len(t) = 0 THEN FALSE
    ELSE IF Len(s) = 0 THEN TRUE
    ELSE IF s[1] # t[1] THEN s[1] < t[1]
    ELSE StrLess(Tail(s), Tail(t))

\* asciiEqualFold(s, t): equal ignoring ASCII letter case
asciiEqualFold(s, t) == ToLower(s) = ToLower(t)

\* strings.IndexByte(v, c): 0-based index of the first c in v, -1 if none
IndexByte(v, c) ==
    IF \E i \in 1..Len(v) : v[i] = c
    THEN (CHOOSE i \in 1..Len(v) : v[i] = c /\ \A j \in 1..(i - 1) : v[j] # c) - 1
    ELSE -1

\* strconv.FormatInt(n, 10) for n >= 0
RECURSIVE FormatInt(_)
FormatInt(n) ==
    IF n < 10 THEN <<48 + n>> ELSE Append(FormatInt(n \div 10), 48 + (n % 10))

Range(s) == {s[i] : i \in DOMAIN s}

\* the orders in which a range over a Go map with key set S can visit it
Perms(S) ==
    {p \in [1..Cardinality(S) -> S] : \A x \in S : \E i \in 1..Cardinality(S) : p[i] = x}

SeqsUpTo(S, n) == UNION {[1..k -> S] : k \in 0..n}

(***************************************************************************)
(* The header sorter.                                                      *)
(***************************************************************************)

\* sorter.order as sortedKeyValuesBy fills it: entry -> its (last) 0-based index
OrderMap(headerOrder) ==
    [v \in Range(headerOrder) |->
        (CHOOSE i \in 1..Len(headerOrder) :
            headerOrder[i] = v /\ \A j \in (i + 1)..Len(headerOrder) : headerOrder[j] # v) - 1]

\* a faulty Less that ignores sorter.order and compares the keys only
LessByKey(order, ki, kj) == StrLess(ki, kj)

\* headerSorter.Less, on the keys of the two elements
Less(order, ki, kj) ==
    IF DOMAIN order = {} THEN StrLess(ki, kj)
    ELSE LET iok == ToLower(ki) \in DOMAIN order
             jok == ToLower(kj) \in DOMAIN order
         IN IF ~iok /\ ~jok THEN StrLess(ki, kj)
            ELSE IF ~iok /\ jok THEN FALSE
            ELSE IF iok /\ ~jok THEN TRUE
            ELSE order[ToLower(ki)] < order[ToLower(kj)]

\* the inner loop of sort.Sort's insertion sort: x moves left while Less(x, left neighbour)
RECURSIVE InsertLeft(_, _, _)
InsertLeft(order, s, x) ==
    IF Len(s) = 0 THEN <<x>>
    ELSE IF Less(order, x.key, s[Len(s)].key)
         THEN Append(InsertLeft(order, SubSeq(s, 1, Len(s) - 1), x), s[Len(s)])
         ELSE Append(s, x)

\* sort.Sort(sorter): for the at most 12 elements of a header map Go's pdqsort is
\* an insertion sort, so elements that Less does not order keep their input order
RECURSIVE SortSort(_, _)
SortSort(order, kvs) ==
    IF Len(kvs) = 0 THEN <<>>
    ELSE InsertLeft(order, SortSort(order, SubSeq(kvs, 1, Len(kvs) - 1)), kvs[Len(kvs)])

\* for k, vv := range header { kvs = append(kvs, keyValues{k, vv}) }, visiting in order iter
RangeHeader(header, iter) ==
    [i \in 1..Len(iter) |-> [key |-> iter[i], values |-> header[iter[i]]]]

\* sortedKeyValues(header); sorterOrder is the order field of the sorter it got
sortedKeyValues(header, sorterOrder, iter) ==
    SortSort(sorterOrder, RangeHeader(header, iter))

\* sortedKeyValuesBy(header, headerOrder)
sortedKeyValuesBy(header, headerOrder, iter) ==
    SortSort(OrderMap(headerOrder), RangeHeader(header, iter))

(***************************************************************************)
(* ClientConn.encodeHeaders.                                               *)
(***************************************************************************)
Field(n, v) == [name |-> n, value |-> v]

\* host := req.Host; if host == "" { host = req.URL.Host }
HostOf(r) == IF r.Host = <<>> THEN r.URL.Host ELSE r.Host

\* a nil req.URL; no URL there is has an empty RequestURI ("/" stands for an
\* empty path)
NilURL == [Host |-> <<>>, Scheme |-> <<>>, RequestURI |-> <<>>]

\* validPseudoPath(v): (len(v) > 0 && v[0] == '/') || v == "*"
validPseudoPath(v) == (Len(v) > 0 /\ v[1] = 47) \/ v = <<42>>

\* strings.TrimPrefix(s, prefix)
TrimPrefix(s, prefix) ==
    IF Len(s) >= Len(prefix) /\ SubSeq(s, 1, Len(prefix)) = prefix
    THEN SubSeq(s, Len(prefix) + 1, Len(s)) ELSE s

\* path := req.URL.RequestURI(), and where that is no valid :path,
\* strings.TrimPrefix(path, req.URL.Scheme+"://"+host)
RequestPath(r) ==
    IF validPseudoPath(r.URL.RequestURI) THEN r.URL.RequestURI
    ELSE TrimPrefix(r.URL.RequestURI, r.URL.Scheme \o <<58, 47, 47>> \o HostOf(r))

\* path: that of the URL unless the method is CONNECT
PathOf(r) == IF r.Method # S_CONNECT THEN RequestPath(r) ELSE <<>>

\* httpguts.ValidHeaderFieldName: a non-empty string of token characters
TokenChars ==
    {33, 35, 36, 37, 38, 39, 42, 43, 45, 46, 94, 95, 96, 124, 126}
    \cup (48..57) \cup (65..90) \cup (97..122)

ValidHeaderFieldName(k) == Len(k) > 0 /\ \A i \in 1..Len(k) : k[i] \in TokenChars

\* a faulty test that lets every header value pass
AnyFieldValue(v) == TRUE

\* httpguts.ValidHeaderFieldValue: no control character but the tab
ValidHeaderFieldValue(v) == \A i \in 1..Len(v) : ~((v[i] < 32 \/ v[i] = 127) /\ v[i] # 9)

\* for k, vv := range req.Header: the error of the first key or value, in the
\* order iter of the range, that is not valid
RECURSIVE InvalidHeader(_, _)
InvalidHeader(header, iter) ==
    IF Len(iter) = 0 THEN "nil"
    ELSE IF ~ValidHeaderFieldName(Head(iter)) THEN "invalid HTTP header name"
    ELSE IF \E i \in 1..Len(header[Head(iter)]) : ~ValidHeaderFieldValue(header[Head(iter)][i])
    THEN "invalid HTTP header value"
    ELSE InvalidHeader(header, Tail(iter))

\* m := req.Method; if m == "" { m = http.MethodGet }
MethodOf(r) == IF r.Method = <<>> THEN S_GET ELSE r.Method

\* a faulty switch that emits :path and :scheme for a CONNECT request too
PseudoCaseNoConnect(p, r) ==
    IF p = S_authority THEN <<Field(S_authority, HostOf(r))>>
    ELSE IF p = S_method THEN <<Field(S_method, MethodOf(r))>>
    ELSE IF p = S_path THEN <<Field(S_path, PathOf(r))>>
    ELSE IF p = S_scheme THEN <<Field(S_scheme, r.URL.Scheme)>>
    ELSE <<>>

\* one iteration of the loop over PHeaderOrder: the switch on the token p
PseudoCase(p, r) ==
    IF p = S_authority THEN <<Field(S_authority, HostOf(r))>>
    ELSE IF p = S_method THEN <<Field(S_method, MethodOf(r))>>
    ELSE IF p = S_path
         THEN (IF r.Method # S_CONNECT THEN <<Field(S_path, PathOf(r))>> ELSE <<>>)
    ELSE IF p = S_scheme
         THEN (IF r.Method # S_CONNECT THEN <<Field(S_scheme, r.URL.Scheme)>> ELSE <<>>)
    ELSE <<>>

\* for _, p := range cc.t.opt.PHeaderOrder { switch p ... }
RECURSIVE PseudoOrdered(_, _)
PseudoOrdered(ps, r) ==
    IF Len(ps) = 0 THEN <<>> ELSE PseudoCase(Head(ps), r) \o PseudoOrdered(Tail(ps), r)

\* a faulty else branch that leaves out :method and :scheme for CONNECT
PseudoDefaultOmitMethod(r) ==
    IF r.Method # S_CONNECT
    THEN <<Field(S_authority, HostOf(r)), Field(S_method, MethodOf(r)),
           Field(S_path, PathOf(r)), Field(S_scheme, r.URL.Scheme)>>
    ELSE <<Field(S_authority, HostOf(r)), Field(S_path, PathOf(r))>>

\* the else branch: the fixed order when PHeaderOrder is empty
PseudoDefault(r) ==
    <<Field(S_authority, HostOf(r)), Field(S_method, MethodOf(r))>>
    \o (IF r.Method # S_CONNECT
        THEN <<Field(S_path, PathOf(r)), Field(S_scheme, r.URL.Scheme)>>
        ELSE <<>>)

\* the pseudo-header part of enumerateHeaders
enumeratePseudo(o, r) ==
    IF Len(o.PHeaderOrder) > 0 THEN PseudoOrdered(o.PHeaderOrder, r) ELSE PseudoDefault(r)

\* a faulty strip that passes over one space at most
SkipOneSpace(v, p) == IF p + 1 <= Len(v) /\ v[p + 1] = 32 THEN p + 1 ELSE p

\* for p+1 <= len(v) && v[p] == ' ' { p++ }   (p is 0-based)
RECURSIVE SkipSpaces(_, _)
SkipSpaces(v, p) ==
    IF p + 1 <= Len(v) /\ v[p + 1] = 32 THEN SkipSpaces(v, p + 1) ELSE p

\* a faulty Cookie branch that does not split: the value goes out as one field
CookieWhole(v) == <<Field(S_cookie, v)>>

\* the split of one Cookie value v: the inner for loop and the trailing if len(v) > 0
RECURSIVE CookieSplit(_)
CookieSplit(v) ==
    LET p == IndexByte(v, 59)
    IN IF p < 0
       THEN (IF Len(v) > 0 THEN <<Field(S_cookie, v)>> ELSE <<>>)
       ELSE <<Field(S_cookie, SubSeq(v, 1, p))>>
            \o CookieSplit(SubSeq(v, SkipSpaces(v, p + 1) + 1, Len(v)))

\* for _, v := range kv.values { ...split v... }
RECURSIVE CookieFields(_)
CookieFields(values) ==
    IF Len(values) = 0 THEN <<>> ELSE CookieSplit(Head(values)) \o CookieFields(Tail(values))

\* for _, v := range kv.values { f(kv.key, v) }
EachValue(key, values) == [i \in 1..Len(values) |-> Field(key, values[i])]

\* the body of the loop over kvs for one kv: the fields it emits
KvFields(kv) ==
    IF asciiEqualFold(kv.key, S_host) \/ asciiEqualFold(kv.key, S_content_length) THEN <<>>
    ELSE IF \/ asciiEqualFold(kv.key, S_connection)
            \/ asciiEqualFold(kv.key, S_proxy_connection)
            \/ asciiEqualFold(kv.key, S_transfer_encoding)
            \/ asciiEqualFold(kv.key, S_upgrade)
            \/ asciiEqualFold(kv.key, S_keep_alive) THEN <<>>
    ELSE IF asciiEqualFold(kv.key, S_user_agent)
         THEN (IF Len(kv.values) < 1 THEN <<>>
               ELSE IF kv.values[1] = <<>> THEN <<>>
               ELSE EachValue(kv.key, SubSeq(kv.values, 1, 1)))
    ELSE IF asciiEqualFold(kv.key, S_cookie) THEN CookieFields(kv.values)
    ELSE EachValue(kv.key, kv.values)

RECURSIVE KvsFields(_)
KvsFields(kvs) ==
    IF Len(kvs) = 0 THEN <<>> ELSE KvFields(Head(kvs)) \o KvsFields(Tail(kvs))

\* a faulty flag that is set only when a user-agent field was emitted
DidUAEmitted(kvs) ==
    \E i \in 1..Len(kvs) :
        /\ asciiEqualFold(kvs[i].key, S_user_agent)
        /\ Len(kvs[i].values) >= 1
        /\ kvs[i].values[1] # <<>>

\* didUA after the loop: some key is user-agent
DidUA(kvs) == \E i \in 1..Len(kvs) : asciiEqualFold(kvs[i].key, S_user_agent)

\* shouldSendReqContentLength(method, contentLength)
shouldSendReqContentLength(method, contentLength) ==
    IF contentLength > 0 THEN TRUE
    ELSE IF contentLength < 0 THEN FALSE
    ELSE method \in {S_POST, S_PUT, S_PATCH}

\* the sorted request headers: sortedKeyValuesBy or sortedKeyValues
SortedHeaders(o, r, iter) ==
    IF Len(o.HeaderOrder) > 0
    THEN sortedKeyValuesBy(r.Header, o.HeaderOrder, iter)
    ELSE sortedKeyValues(r.Header, <<>>, iter)

\* enumerateHeaders(f): every (name, value) handed to f, in order; iter is the order
\* in which the range over req.Header visits the map
enumerateHeaders(o, r, trailers, contentLength, iter) ==
    LET kvs == SortedHeaders(o, r, iter)
    IN enumeratePseudo(o, r)
       \o (IF trailers # <<>> THEN <<Field(S_trailer, trailers)>> ELSE <<>>)
       \o KvsFields(kvs)
       \o (IF shouldSendReqContentLength(r.Method, contentLength)
           THEN <<Field(S_content_length, FormatInt(contentLength))>> ELSE <<>>)
       \o (IF ~DidUA(kvs) THEN <<Field(S_user_agent, defaultUserAgent)>> ELSE <<>>)

\* hpack.HeaderField.Size(): len(name) + len(value) + 32
FieldSize(f) == Len(f.name) + Len(f.value) + 32

RECURSIVE SumSize(_)
SumSize(fs) == IF Len(fs) = 0 THEN 0 ELSE FieldSize(Head(fs)) + SumSize(Tail(fs))

\* lowerHeader(name): (lower-cased name, whether name is ASCII)
IsASCII(s) == \A i \in 1..Len(s) : s[i] < 128

\* the second pass: lower-case each name, skip a non-ASCII name, write the field
RECURSIVE WriteFields(_)
WriteFields(fs) ==
    IF Len(fs) = 0 THEN <<>>
    ELSE (IF IsASCII(Head(fs).name)
          THEN <<Field(ToLower(Head(fs).name), Head(fs).value)>> ELSE <<>>)
         \o WriteFields(Tail(fs))

\* 0xffffffffffffffff, the "infinite" peerMaxHeaderListSize: no header list is as
\* long, and it is written -1, its two's complement reading
MaxUint64 == -1

\* a faulty comparison that refuses a header list of exactly the peer's limit
ExceedsPeerMaxInclusive(hlSize, peerMax) == peerMax # MaxUint64 /\ hlSize >= peerMax

\* hlSize > cc.peerMaxHeaderListSize, on uint64
ExceedsPeerMax(hlSize, peerMax) == peerMax # MaxUint64 /\ hlSize > peerMax

\* encodeHeaders(req, _, trailers, contentLength) on a connection whose peer
\* advertised peerMax: the error and the fields written to the HPACK encoder.
\* The map is ranged once per pass; the size of the first pass does not depend on
\* the order, so one order, that of the writing pass, is an input. The hosts
\* are ASCII, which httpguts.PunycodeHostPort returns as they are.
encodeHeaders(o, r, trailers, contentLength, peerMax, iter) ==
    IF r.URL = NilURL
    THEN [err |-> "errNilRequestURL", fields |-> <<>>]
    ELSE IF r.Method # S_CONNECT /\ ~validPseudoPath(RequestPath(r))
    THEN [err |-> "invalid request :path", fields |-> <<>>]
    ELSE IF InvalidHeader(r.Header, iter) # "nil"
    THEN [err |-> InvalidHeader(r.Header, iter), fields |-> <<>>]
    ELSE LET fs == enumerateHeaders(o, r, trailers, contentLength, iter)
         IN IF ExceedsPeerMax(SumSize(fs), peerMax)
            THEN [err |-> "errRequestHeaderListSize", fields |-> <<>>]
            ELSE [err |-> "nil", fields |-> WriteFields(fs)]

(***************************************************************************)
(* Setting.Valid.                                                          *)
(***************************************************************************)
SettingHeaderTableSize == 1
SettingEnablePush == 2
SettingMaxConcurrentStreams == 3
SettingInitialWindowSize == 4
SettingMaxFrameSize == 5
SettingMaxHeaderListSize == 6

initialHeaderTableSize == 4096
initialWindowSize == 65535

\* 1 << 30, the default connection-level increment
transportDefaultConnFlow == 1073741824

(* A uint32 is the pair <<high 16 bits, low 16 bits>>: the model checker's own  *)
(* integers are 32-bit signed and cannot hold 2^31 .. 2^32-1.               *)
U32(n) == <<n \div 65536, n % 65536>>

\* 2^31, 2^24 and 2^32-1 as uint32
U32Pow31 == <<32768, 0>>
U32Pow24 == <<256, 0>>
U32Max == <<65535, 65535>>

\* a < b on uint32
U32Less(a, b) == a[1] < b[1] \/ (a[1] = b[1] /\ a[2] < b[2])

\* a + b on uint32: wraps modulo 2^32
U32Add(a, b) ==
    LET lo == a[2] + b[2]
    IN <<(a[1] + b[1] + (lo \div 65536)) % 65536, lo % 65536>>

\* int32(x) of a uint32 x: the two's complement reading
Int32(x) ==
    IF x[1] >= 32768 THEN (x[1] - 65536) * 65536 + x[2] ELSE x[1] * 65536 + x[2]

\* a faulty Valid whose MAX_FRAME_SIZE floor is exclusive: 16384 is refused
ValidFloorExclusive(s) ==
    IF s.ID = SettingEnablePush
    THEN (IF s.Val # U32(1) /\ s.Val # U32(0) THEN "PROTOCOL_ERROR" ELSE "nil")
    ELSE IF s.ID = SettingInitialWindowSize
    THEN (IF U32Less(U32(2147483647), s.Val) THEN "FLOW_CONTROL_ERROR" ELSE "nil")
    ELSE IF s.ID = SettingMaxFrameSize
    THEN (IF ~U32Less(U32(16384), s.Val) \/ U32Less(U32(16777215), s.Val)
          THEN "PROTOCOL_ERROR" ELSE "nil")
    ELSE "nil"

\* Setting.Valid(): "nil" or the error code of the ConnectionError returned
Valid(s) ==
    IF s.ID = SettingEnablePush
    THEN (IF s.Val # U32(1) /\ s.Val # U32(0) THEN "PROTOCOL_ERROR" ELSE "nil")
    ELSE IF s.ID = SettingInitialWindowSize
    THEN (IF U32Less(U32(2147483647), s.Val) THEN "FLOW_CONTROL_ERROR" ELSE "nil")
    ELSE IF s.ID = SettingMaxFrameSize
    THEN (IF U32Less(s.Val, U32(16384)) \/ U32Less(U32(16777215), s.Val)
          THEN "PROTOCOL_ERROR" ELSE "nil")
    ELSE "nil"

(***************************************************************************)
(* Transport.newClientConn.                                                *)
(***************************************************************************)
Frame(type, stream, incr, settings, weight) ==
    [type |-> type, stream |-> stream, incr |-> incr, settings |-> settings,
     weight |-> weight]

PrefaceFrame == Frame("PREFACE", 0, U32(0), <<>>, 0)

\* t.maxFrameReadSize()
maxFrameReadSize(tr) ==
    IF tr.MaxReadFrameSize = U32(0) THEN U32(0)
    ELSE IF U32Less(tr.MaxReadFrameSize, U32(16384)) THEN U32(16384)
    ELSE IF U32Less(U32(16777215), tr.MaxReadFrameSize) THEN U32(16777215)
    ELSE tr.MaxReadFrameSize

\* t.maxHeaderListSize()
maxHeaderListSize(tr) ==
    IF tr.MaxHeaderListSize = U32(0) THEN U32(10485760)
    ELSE IF tr.MaxHeaderListSize = U32Max THEN U32(0)
    ELSE tr.MaxHeaderListSize

\* t.maxDecoderHeaderTableSize()
maxDecoderHeaderTableSize(tr) ==
    IF tr.MaxDecoderHeaderTableSize # U32(0) THEN tr.MaxDecoderHeaderTableSize
    ELSE U32(initialHeaderTableSize)

\* a faulty default list that always advertises the header table size
DefaultSettingsWithTable(tr) ==
    <<[ID |-> SettingEnablePush, Val |-> U32(0)],
      [ID |-> SettingInitialWindowSize, Val |-> U32(4194304)],
      [ID |-> SettingHeaderTableSize, Val |-> maxDecoderHeaderTableSize(tr)]>>

\* the settings newClientConn computes when Options.Settings is empty
DefaultSettings(tr) ==
    <<[ID |-> SettingEnablePush, Val |-> U32(0)],
      [ID |-> SettingInitialWindowSize, Val |-> U32(4194304)]>>
    \o (IF maxFrameReadSize(tr) # U32(0)
        THEN <<[ID |-> SettingMaxFrameSize, Val |-> maxFrameReadSize(tr)]>> ELSE <<>>)
    \o (IF maxHeaderListSize(tr) # U32(0)
        THEN <<[ID |-> SettingMaxHeaderListSize, Val |-> maxHeaderListSize(tr)]>> ELSE <<>>)
    \o (IF maxDecoderHeaderTableSize(tr) # U32(initialHeaderTableSize)
        THEN <<[ID |-> SettingHeaderTableSize, Val |-> maxDecoderHeaderTableSize(tr)]>>
        ELSE <<>>)

\* settingVal := make([]uint32, 7)
ZeroSettingVal == [i \in 0..6 |-> U32(0)]

\* for _, setting := range settings { Valid; settingVal[setting.ID] = setting.Val }:
\* "err" at the first invalid setting, "panic" at the first index out of range
RECURSIVE RecordSettings(_, _)
RecordSettings(settings, settingVal) ==
    IF Len(settings) = 0
    THEN [outcome |-> "ok", err |-> "nil", settingVal |-> settingVal]
    ELSE LET s == Head(settings)
         IN IF Valid(s) # "nil"
            THEN [outcome |-> "err", err |-> Valid(s), settingVal |-> settingVal]
            ELSE IF s.ID \notin DOMAIN settingVal
            THEN [outcome |-> "panic", err |-> "index out of range",
                  settingVal |-> settingVal]
            ELSE RecordSettings(Tail(settings), [settingVal EXCEPT ![s.ID] = s.Val])

\* a faulty test that takes every connection for an HTTP/2 one
AlwaysHTTP2(c) == FALSE

\* state.NegotiatedProtocol != NextProtoTLS, on the TLS state newClientConn stored
NotHTTP2(c) == c.proto # "h2"

\* the ClientConn literal newClientConn starts from, after cc.flow.add(initialWindowSize)
NewConn(proto) ==
    [proto |-> proto,
     maxFrameSize |-> U32(16384),
     initialWindowSize |-> U32(65535),
     maxConcurrentStreams |-> U32(100),
     peerMaxHeaderListSize |-> MaxUint64,
     wantSettingsAck |-> TRUE,
     flow |-> initialWindowSize,
     inflow |-> 0,
     settings |-> <<>>,
     prioLeft |-> {},
     bw |-> <<>>,
     sent |-> <<>>,
     readLoops |-> 0,
     idleTimeout |-> 0,
     idleTimers |-> 0,
     served |-> "",
     returns |-> "",
     err |-> "nil"]

\* no connection at hand
NoConn == [NewConn("") EXCEPT !.flow = 0]

\* the Transport fields a caller of ConfigureTransports leaves at zero
ZeroTransport ==
    [MaxReadFrameSize |-> U32(0), MaxHeaderListSize |-> U32(0),
     MaxDecoderHeaderTableSize |-> U32(0), MaxEncoderHeaderTableSize |-> U32(0),
     IdleConnTimeout |-> 0]

\* t.idleConnTimeout(): the idle timeout the Transport is configured with, 0 for
\* none
idleConnTimeout(tr) == tr.IdleConnTimeout

\* if d := t.idleConnTimeout(); d != 0 { cc.idleTimeout = d;
\* cc.idleTimer = time.AfterFunc(d, cc.onIdleTimeout) }: one more timer is armed
ArmIdleTimer(c, tr) ==
    IF idleConnTimeout(tr) # 0
    THEN [c EXCEPT !.idleTimeout = idleConnTimeout(tr), !.idleTimers = @ + 1]
    ELSE c

\* the assignments after the validation loop: a recorded value > 0 overrides
ApplySettingVal(c, sv) ==
    [c EXCEPT
        !.maxConcurrentStreams =
            IF sv[SettingMaxConcurrentStreams] # U32(0)
            THEN sv[SettingMaxConcurrentStreams] ELSE @,
        !.initialWindowSize =
            IF sv[SettingInitialWindowSize] # U32(0) THEN sv[SettingInitialWindowSize] ELSE @,
        !.maxFrameSize =
            IF sv[SettingMaxFrameSize] # U32(0) THEN sv[SettingMaxFrameSize] ELSE @]

ApplySettingValT(tr, sv) ==
    [tr EXCEPT
        !.MaxEncoderHeaderTableSize =
            IF sv[SettingHeaderTableSize] # U32(0) THEN sv[SettingHeaderTableSize] ELSE @,
        !.MaxDecoderHeaderTableSize =
            IF sv[SettingHeaderTableSize] # U32(0) THEN sv[SettingHeaderTableSize] ELSE @,
        !.MaxReadFrameSize =
            IF sv[SettingMaxFrameSize] # U32(0) THEN sv[SettingMaxFrameSize] ELSE @,
        !.MaxHeaderListSize =
            IF sv[SettingMaxHeaderListSize] # U32(0) THEN sv[SettingMaxHeaderListSize] ELSE @]

\* a faulty handshake that leaves the connection-level WINDOW_UPDATE out
NoWindowUpdate(incr) == <<>>

\* cc.fr.WriteWindowUpdate(0, incr): what the call appends to the write buffer,
\* for an increment a WINDOW_UPDATE frame can carry (1 .. 2^31-1)
WindowUpdateFrames(incr) == <<Frame("WINDOW_UPDATE", 0, incr, <<>>, 0)>>

\* the increment newClientConn hands to WriteWindowUpdate
ConnFlowIncrement(o) ==
    IF o.WindowSizeIncrement # U32(0) THEN o.WindowSizeIncrement
    ELSE U32(transportDefaultConnFlow)

\* the value newClientConn hands to cc.inflow.init
InflowInit(o) ==
    IF o.WindowSizeIncrement # U32(0)
    THEN Int32(U32Add(o.WindowSizeIncrement, U32(initialWindowSize)))
    ELSE transportDefaultConnFlow + initialWindowSize

\* the stream ids of the PRIORITY frames among frames, in order
RECURSIVE PriorityIDs(_)
PriorityIDs(frames) ==
    IF Len(frames) = 0 THEN <<>>
    ELSE (IF Head(frames).type = "PRIORITY" THEN <<Head(frames).stream>> ELSE <<>>)
         \o PriorityIDs(Tail(frames))

(***************************************************************************)
(* The inputs.                                                             *)
(***************************************************************************)
\* request header map keys; "Dnt" and "dnt" differ only in letter case
HeaderKeys == {K_Accept, K_Dnt, S_dnt, K_Cookie, K_User_Agent}

DefaultVals(k) ==
    IF k = K_Accept THEN <<V_html, V_any>>
    ELSE IF k = K_Dnt THEN <<V_1>>
    ELSE IF k = S_dnt THEN <<V_2>>
    ELSE IF k = K_Cookie THEN <<V_a1_b2>>
    ELSE IF k = K_User_Agent THEN <<V_ua>>
    ELSE <<S_example>>

SortMaps ==
    {[k \in K |-> DefaultVals(k)] : K \in {X \in SUBSET HeaderKeys : Cardinality(X) <= MaxHeaders}}

CookieStrings == {V_a1_b2, V_a1__b2, V_a1b2, V_a1, V_a1semi, V_sa1__b2, V_c3, <<>>}

CookieMaps == {[k \in {K_Cookie} |-> vs] : vs \in SeqsUpTo(CookieStrings, MaxValues)}

\* User-Agent missing its values, empty, with two values, and under two keys that
\* differ in letter case
UAMaps ==
    {[k \in {K_User_Agent} |-> vs] : vs \in {<<>>, << <<>> >>, <<V_ua, V_ub>>}}
    \cup {[k \in {K_User_Agent, S_user_agent} |-> IF k = K_User_Agent THEN <<V_ua>> ELSE <<V_ub>>]}

\* entries of Options.HeaderOrder; "Dnt" is an entry that is not lower case
OrderNames == {S_dnt, S_accept, S_user_agent, K_Dnt}

OrderLists == SeqsUpTo(OrderNames, MaxOrderLen)

PTokens == {S_authority, S_method, S_path, S_scheme, S_bogus}

\* the PHeaderOrder of TestFingerPrint
ChromePHeaderOrder == <<S_method, S_authority, S_scheme, S_path>>

PLists == SeqsUpTo(PTokens, MaxPHeaderLen) \cup {ChromePHeaderOrder}

Methods == {S_GET, <<>>, S_CONNECT, S_POST}

NoPriority == [id \in {} |-> 0]

HeaderOptions ==
    {o \in [HeaderOrder : OrderLists, PHeaderOrder : PLists, Settings : {<<>>},
            WindowSizeIncrement : {U32(0)}, PriorityParams : {NoPriority}] :
        o.HeaderOrder = <<>> \/ o.PHeaderOrder = <<>>}

TheURL == [Host |-> S_example, Scheme |-> S_https, RequestURI |-> S_slash]

\* requests that differ in their header keys
SortRequests ==
    [Method : {S_GET}, Host : {<<>>}, URL : {TheURL}, Header : SortMaps,
     Trailers : {<<>>}, ContentLength : {0}]

\* requests that differ in the values of Cookie or User-Agent, in the trailers
\* they announce and in their body length
ValueRequests ==
    [Method : {S_GET, S_POST}, Host : {<<>>}, URL : {TheURL},
     Header : CookieMaps \cup UAMaps, Trailers : {<<>>, V_xt}, ContentLength : {0, 12}]

\* requests that differ in their method; they carry a Host header, which is not
\* a wire field
MethodRequests ==
    [Method : Methods, Host : {<<>>}, URL : {TheURL},
     Header : {[k \in {K_Accept, K_Host} |-> DefaultVals(k)]},
     Trailers : {<<>>}, ContentLength : {0}]

\* the requests a Transport configured with o is given
Requests(o) ==
    IF o.HeaderOrder # <<>> THEN SortRequests
    ELSE IF o.PHeaderOrder \in {<<>>, ChromePHeaderOrder}
    THEN SortRequests \cup ValueRequests \cup MethodRequests
    ELSE MethodRequests

SettingVals ==
    {U32(0), U32(1), U32(2), U32(100), U32(16383), U32(16384), U32(16777215), U32Pow24,
     U32(2147483647), U32Pow31, U32Max}

\* 8 is an identifier outside the six defined ones
SettingIDs == {SettingHeaderTableSize, SettingEnablePush, SettingMaxConcurrentStreams,
               SettingInitialWindowSize, SettingMaxFrameSize, SettingMaxHeaderListSize, 8}

AllSettings == [ID : SettingIDs, Val : SettingVals]

\* the settings a caller puts in Options.Settings
ConnSettings ==
    {[ID |-> SettingEnablePush, Val |-> U32(0)],
     [ID |-> SettingEnablePush, Val |-> U32(2)],
     [ID |-> SettingMaxFrameSize, Val |-> U32(100)],
     [ID |-> SettingMaxFrameSize, Val |-> U32(16384)],
     [ID |-> SettingInitialWindowSize, Val |-> U32(6291456)],
     [ID |-> SettingHeaderTableSize, Val |-> U32(65536)],
     [ID |-> SettingMaxConcurrentStreams, Val |-> U32(1000)],
     [ID |-> 8, Val |-> U32(1)]}

SettingsLists == SeqsUpTo(ConnSettings, MaxSettings)

\* 15663105 is the increment of TestFingerPrint; 2147418112 is the largest increment
\* with 65535 + increment <= 2^31-1
WindowSizeIncrements ==
    {U32(0), U32(1), U32(15663105), U32(2147418112), U32(2147418113), U32(2147483647)}

PriorityStreams == {2 * i + 1 : i \in 1..MaxPriority}

\* PriorityParam{Weight: ...}, one per stream id
PriorityMaps ==
    {[id \in S |-> 200 + id] : S \in SUBSET PriorityStreams}

ConnOptions ==
    {o \in [HeaderOrder : {<<>>}, PHeaderOrder : {<<>>}, Settings : SettingsLists,
            WindowSizeIncrement : WindowSizeIncrements, PriorityParams : PriorityMaps] :
        Len(o.Settings) <= 1 \/ (o.WindowSizeIncrement = U32(0) /\ o.PriorityParams = NoPriority)}

\* no idle timeout, and the 90 seconds of http.DefaultTransport
IdleConnTimeouts == {0, 90}

\* the Transport fields a caller sets before the first connection: a frame size
\* inside 16k..16M, "no limit" and a plain limit for the header list, and a
\* decoder table of the default size and of another
Transports ==
    [MaxReadFrameSize : {U32(0), U32(32768)},
     MaxHeaderListSize : {U32(0), U32Max, U32(8192)},
     MaxDecoderHeaderTableSize : {U32(0), U32(4096), U32(65536)},
     MaxEncoderHeaderTableSize : {U32(0)},
     IdleConnTimeout : IdleConnTimeouts]

\* the plain Options: nothing of the fingerprint configured
PlainOptions ==
    [HeaderOrder |-> <<>>, PHeaderOrder |-> <<>>, Settings |-> <<>>,
     WindowSizeIncrement |-> U32(0), PriorityParams |-> NoPriority]

\* the Transports modelled with Options o
TransportsOf(o) ==
    IF o = PlainOptions THEN Transports
    ELSE {[ZeroTransport EXCEPT !.IdleConnTimeout = d] : d \in IdleConnTimeouts}

NoDone == [count |-> 0, prios |-> {}]

(***************************************************************************)
(* The header pipeline: requests encoded on an established connection.     *)
(***************************************************************************)
InitHeaders ==
    /\ opt \in HeaderOptions
    /\ req = <<>>
    /\ lastKvs = <<>>
    /\ wire = <<>>
    /\ wires = {}
    /\ vlog = [count |-> 0, last |-> <<>>]
    /\ t2 = ZeroTransport
    /\ cc = NewConn("h2")
    /\ pc = "ready"
    /\ net = <<>>
    /\ done = NoDone
    /\ henc = {}
    /\ encErr = "nil"
    /\ rt = <<>>
    /\ strm = <<>>
    /\ pool = {}
    /\ dec = <<>>
    /\ ct = <<>>
    /\ fd = <<>>
    /\ rr = <<>>
    /\ srt = <<>>

\* a request reaches ClientConn.encodeHeaders
NewRequest ==
    /\ req = <<>>
    /\ \E r \in Requests(opt) : req' = <<r>>
    /\ lastKvs' = <<>>
    /\ wire' = <<>>
    /\ wires' = {}
    /\ encErr' = "nil"
    /\ UNCHANGED <<opt, vlog, t2, cc, pc, net, done, henc, encErr, tripVars, fetchVars>>

\* one call of encodeHeaders for the request; the range over req.Header visits
\* the map in some order
EncodeHeaders ==
    /\ Len(req) = 1
    /\ \E iter \in Perms(DOMAIN req[1].Header) :
         \E res \in {encodeHeaders(opt, req[1], req[1].Trailers, req[1].ContentLength,
                                    cc.peerMaxHeaderListSize, iter)} :
            /\ lastKvs' = IF res.err \in {"nil", "errRequestHeaderListSize"}
                           THEN SortedHeaders(opt, req[1], iter) ELSE <<>>
            /\ wire' = res.fields
            /\ wires' = wires \cup {res.fields}
            /\ encErr' = res.err
            /\ henc' = IF res.err = "nil" THEN henc \cup Range(res.fields) ELSE henc
    /\ UNCHANGED <<opt, req, vlog, t2, cc, pc, net, done, tripVars, fetchVars>>

\* the request is over
RequestDone ==
    /\ Len(req) = 1
    /\ wires # {}
    /\ req' = <<>>
    /\ lastKvs' = <<>>
    /\ wire' = <<>>
    /\ wires' = {}
    /\ henc' = {}
    /\ encErr' = "nil"
    /\ UNCHANGED <<opt, vlog, t2, cc, pc, net, done, tripVars, fetchVars>>

NextHeaders == NewRequest \/ EncodeHeaders \/ RequestDone

SpecHeaders == InitHeaders /\ [][NextHeaders]_vars

(***************************************************************************)
(* Setting.Valid as a pure function of its receiver.                       *)
(***************************************************************************)
InitValid ==
    /\ opt \in {o \in HeaderOptions : o.HeaderOrder = <<>> /\ o.PHeaderOrder = <<>>}
    /\ req = <<>>
    /\ lastKvs = <<>>
    /\ wire = <<>>
    /\ wires = {}
    /\ vlog = [count |-> 0, last |-> <<>>]
    /\ t2 = ZeroTransport
    /\ cc = NoConn
    /\ pc = "idle"
    /\ net = <<>>
    /\ done = NoDone
    /\ henc = {}
    /\ encErr = "nil"
    /\ rt = <<>>
    /\ strm = <<>>
    /\ pool = {}
    /\ dec = <<>>
    /\ ct = <<>>
    /\ fd = <<>>
    /\ rr = <<>>
    /\ srt = <<>>

CallValid ==
    /\ vlog.count < MaxChecks
    /\ \E s \in AllSettings :
         vlog' = [count |-> vlog.count + 1, last |-> <<[setting |-> s, err |-> Valid(s)]>>]
    /\ UNCHANGED <<opt, req, lastKvs, wire, wires, t2, cc, pc, net, done, henc, encErr, tripVars, fetchVars>>

NextValid == CallValid

SpecValid == InitValid /\ [][NextValid]_vars

(***************************************************************************)
(* Dialing and Transport.newClientConn.                                    *)
(***************************************************************************)
InitConn ==
    /\ opt \in ConnOptions
    /\ req = <<>>
    /\ lastKvs = <<>>
    /\ wire = <<>>
    /\ wires = {}
    /\ vlog = [count |-> 0, last |-> <<>>]
    /\ t2 \in TransportsOf(opt)
    /\ cc = NoConn
    /\ pc = "idle"
    /\ net = <<>>
    /\ done = NoDone
    /\ henc = {}
    /\ encErr = "nil"
    /\ rt = <<>>
    /\ strm = <<>>
    /\ pool = {}
    /\ dec = <<>>
    /\ ct = <<>>
    /\ fd = <<>>
    /\ rr = <<>>
    /\ srt = <<>>

hdrVars == <<req, lastKvs, wire, wires, vlog, henc, encErr>>

\* dialTLSWithContext: DialContext opens the TCP connection, or fails
Dial ==
    /\ pc = "idle"
    /\ done.count < MaxConns
    /\ net' = Append(net, "dial")
    /\ \E ok \in BOOLEAN : pc' = IF ok THEN "dialed" ELSE "dialFailed"
    /\ UNCHANGED <<opt, t2, cc, done, hdrVars, tripVars, fetchVars>>

\* dialTLSWithContext: the TLS handshake negotiates h2 or http/1.1, or fails
TLSHandshake ==
    /\ pc = "dialed"
    /\ net' = Append(net, "tls")
    /\ \E r \in {"h2", "http/1.1", "err"} :
         /\ pc' = IF r = "err" THEN "tlsFailed" ELSE "connected"
         /\ cc' = IF r = "err" THEN cc ELSE [cc EXCEPT !.proto = r]
    /\ UNCHANGED <<opt, t2, done, hdrVars, tripVars, fetchVars>>

\* newClientConn up to the first write: the ClientConn, the early return of a
\* connection that did not negotiate h2, and the settings
NewClientConn ==
    /\ pc = "connected"
    /\ LET c == ArmIdleTimer(NewConn(cc.proto), t2)
       IN IF NotHTTP2(c)
          THEN /\ cc' = [c EXCEPT !.returns = "cc, nil"]
               /\ pc' = "returned"
               /\ t2' = t2
          ELSE IF Len(opt.Settings) = 0
          THEN /\ cc' = [c EXCEPT !.settings = DefaultSettings(t2)]
               /\ pc' = "preface"
               /\ t2' = t2
          ELSE LET rec == RecordSettings(opt.Settings, ZeroSettingVal)
               IN IF rec.outcome = "ok"
                  THEN /\ cc' = [ApplySettingVal(c, rec.settingVal) EXCEPT
                                    !.settings = opt.Settings]
                       /\ t2' = ApplySettingValT(t2, rec.settingVal)
                       /\ pc' = "preface"
                  ELSE /\ cc' = [c EXCEPT !.err = rec.err,
                                           !.returns = IF rec.outcome = "err"
                                                       THEN "nil, err" ELSE "panic"]
                       /\ t2' = t2
                       /\ pc' = IF rec.outcome = "err" THEN "settingErr" ELSE "panic"
    /\ UNCHANGED <<opt, net, done, hdrVars, tripVars, fetchVars>>

\* cc.bw.Write(clientPreface)
WritePreface ==
    /\ pc = "preface"
    /\ cc' = [cc EXCEPT !.bw = Append(@, PrefaceFrame)]
    /\ pc' = "settings"
    /\ UNCHANGED <<opt, t2, net, done, hdrVars, tripVars, fetchVars>>

\* cc.fr.WriteSettings(settings...)
WriteSettings ==
    /\ pc = "settings"
    /\ cc' = [cc EXCEPT !.bw = Append(@, Frame("SETTINGS", 0, U32(0), cc.settings, 0))]
    /\ pc' = "window"
    /\ UNCHANGED <<opt, t2, net, done, hdrVars, tripVars, fetchVars>>

\* cc.fr.WriteWindowUpdate(0, ...) and cc.inflow.init(...)
WriteWindowUpdate ==
    /\ pc = "window"
    /\ cc' = [cc EXCEPT !.bw = @ \o WindowUpdateFrames(ConnFlowIncrement(opt)),
                        !.inflow = InflowInit(opt),
                        !.prioLeft = DOMAIN opt.PriorityParams]
    /\ pc' = "priority"
    /\ UNCHANGED <<opt, t2, net, done, hdrVars, tripVars, fetchVars>>

\* the entry the range over Options.PriorityParams, a map, visits next
NextPriority(left) == left

\* for id, frame := range t.opt.PriorityParams { cc.fr.WritePriority(id, frame) }:
\* one iteration
WritePriority ==
    /\ pc = "priority"
    /\ \E id \in NextPriority(cc.prioLeft) :
         cc' = [cc EXCEPT
                   !.bw = Append(@, Frame("PRIORITY", id, U32(0), <<>>, opt.PriorityParams[id])),
                   !.prioLeft = @ \ {id}]
    /\ UNCHANGED <<opt, t2, pc, net, done, hdrVars, tripVars, fetchVars>>

\* cc.bw.Flush(): the buffered bytes reach the socket, or the write fails after
\* some of them and newClientConn closes the connection and returns cc.werr
Flush ==
    /\ pc = "priority"
    /\ cc.prioLeft = {}
    /\ \/ /\ cc' = [cc EXCEPT !.sent = cc.bw, !.bw = <<>>]
          /\ net' = Append(net, "flush")
          /\ pc' = "flushed"
       \/ /\ \E k \in 0..(Len(cc.bw) - 1) :
               cc' = [cc EXCEPT !.sent = SubSeq(cc.bw, 1, k), !.err = "werr",
                                !.returns = "nil, err"]
          /\ net' = net \o <<"flush", "close">>
          /\ pc' = "writeErr"
    /\ UNCHANGED <<opt, t2, done, hdrVars, tripVars, fetchVars>>

\* go cc.readLoop()
StartReadLoop ==
    /\ pc = "flushed"
    /\ cc' = [cc EXCEPT !.readLoops = @ + 1, !.returns = "cc, nil"]
    /\ net' = Append(net, "readLoop")
    /\ pc' = "ready"
    /\ UNCHANGED <<opt, t2, done, hdrVars, tripVars, fetchVars>>

\* Transport.roundTrip, one pass of its loop on the connection newClientConn
\* returned: a connection that is not HTTP/2 serves the request by downgrade
\* (req.Write on the socket, http.ReadResponse), another by ClientConn.RoundTrip
RoundTripOnConn ==
    /\ pc \in {"returned", "ready"}
    /\ cc.served = ""
    /\ cc' = [cc EXCEPT !.served = IF NotHTTP2(cc) THEN "downgrade" ELSE "RoundTrip"]
    /\ UNCHANGED <<opt, t2, pc, net, done, hdrVars, tripVars, fetchVars>>

Returned == {"dialFailed", "tlsFailed", "returned", "settingErr", "panic", "writeErr", "ready"}

\* the dial or newClientConn has returned; the Transport goes on to its next connection
Return ==
    /\ pc \in Returned
    /\ done' = [count |-> done.count + 1,
                prios |-> IF pc = "ready"
                          THEN done.prios \cup {PriorityIDs(cc.sent)} ELSE done.prios]
    /\ cc' = NoConn
    /\ net' = <<>>
    /\ pc' = "idle"
    /\ UNCHANGED <<opt, t2, hdrVars, tripVars, fetchVars>>

NextConn ==
    \/ Dial \/ TLSHandshake \/ NewClientConn
    \/ WritePreface \/ WriteSettings \/ WriteWindowUpdate \/ WritePriority
    \/ Flush \/ StartReadLoop \/ RoundTripOnConn \/ Return

SpecConn == InitConn /\ [][NextConn]_vars

(***************************************************************************)
(* One connection encoding request after request: the HPACK encoder and    *)
(* the peer's SETTINGS_MAX_HEADER_LIST_SIZE.                               *)
(***************************************************************************)
\* the requests given to the connection: with and without Accept and Cookie
EncoderRequests == {r \in SortRequests : DOMAIN r.Header \subseteq {K_Accept, K_Cookie}}

\* requests encodeHeaders looks at twice: without a URL, with a URL whose
\* RequestURI is its Opaque "x", with one whose RequestURI is absolute, with a
\* header name that holds a space, and with a header value that holds CR LF,
\* alone and next to a header that is valid
K_Bad_Name == <<66, 97, 100, 32, 78, 97, 109, 101>>                 \* "Bad Name"
V_crlf == <<97, 13, 10, 98>>                                        \* "a\r\nb"
S_x == <<120>>                                                      \* "x"
S_absolute == S_https \o <<58, 47, 47>> \o S_example \o S_slash      \* "https://example.com/"

CheckedURLs == {NilURL, [TheURL EXCEPT !.RequestURI = S_x],
                [TheURL EXCEPT !.RequestURI = S_absolute]}

CheckedMaps ==
    {[k \in {K_Bad_Name} |-> <<V_1>>],
     [k \in {K_Dnt} |-> <<V_crlf>>],
     [k \in {K_Accept, K_Dnt} |-> IF k = K_Dnt THEN <<V_1, V_crlf>> ELSE <<V_html>>]}

CheckedRequests ==
    [Method : {S_GET}, Host : {<<>>}, URL : CheckedURLs, Header : {[k \in {K_Accept} |-> <<V_html>>]},
     Trailers : {<<>>}, ContentLength : {0}]
    \cup [Method : {S_CONNECT}, Host : {<<>>}, URL : {[TheURL EXCEPT !.RequestURI = S_x]},
          Header : {[k \in {K_Accept} |-> <<V_html>>]}, Trailers : {<<>>}, ContentLength : {0}]
    \cup [Method : {S_GET}, Host : {<<>>}, URL : {TheURL}, Header : CheckedMaps,
          Trailers : {<<>>}, ContentLength : {0}]

\* the size encodeHeaders sums up for r in its first pass
HeaderListSize(r) ==
    SumSize(enumerateHeaders(PlainOptions, r, r.Trailers, r.ContentLength,
                             CHOOSE iter \in Perms(DOMAIN r.Header) : TRUE))

\* cc.peerMaxHeaderListSize: no limit, nothing allowed, and for each request the
\* limit it just meets and the one it just exceeds
PeerMaxes ==
    {MaxUint64, 0}
    \cup {HeaderListSize(r) : r \in EncoderRequests}
    \cup {HeaderListSize(r) - 1 : r \in EncoderRequests}

InitEncoder ==
    /\ opt = PlainOptions
    /\ req = <<>>
    /\ lastKvs = <<>>
    /\ wire = <<>>
    /\ wires = {}
    /\ vlog = [count |-> 0, last |-> <<>>]
    /\ t2 = ZeroTransport
    /\ \E p \in PeerMaxes : cc = [NewConn("h2") EXCEPT !.peerMaxHeaderListSize = p]
    /\ pc = "ready"
    /\ net = <<>>
    /\ done = NoDone
    /\ henc = {}
    /\ encErr = "nil"
    /\ rt = <<>>
    /\ strm = <<>>
    /\ pool = {}
    /\ dec = <<>>
    /\ ct = <<>>
    /\ fd = <<>>
    /\ rr = <<>>
    /\ srt = <<>>

\* the next request of the connection reaches ClientConn.encodeHeaders
NextRequestOnConn ==
    /\ req = <<>>
    /\ \E r \in EncoderRequests \cup CheckedRequests : req' = <<r>>
    /\ lastKvs' = <<>>
    /\ wire' = <<>>
    /\ wires' = {}
    /\ encErr' = "nil"
    /\ UNCHANGED <<opt, vlog, t2, cc, pc, net, done, henc, tripVars, fetchVars>>

\* the request is over and the connection stays: its encoder keeps its state
RequestOver ==
    /\ Len(req) = 1
    /\ wires # {}
    /\ req' = <<>>
    /\ lastKvs' = <<>>
    /\ wire' = <<>>
    /\ wires' = {}
    /\ encErr' = "nil"
    /\ UNCHANGED <<opt, vlog, t2, cc, pc, net, done, henc, tripVars, fetchVars>>

NextEncoder == NextRequestOnConn \/ EncodeHeaders \/ RequestOver

SpecEncoder == InitEncoder /\ [][NextEncoder]_vars

(***************************************************************************)
(* headerSorterPool: one pool of sorters for every Transport of the        *)
(* process.                                                                *)
(***************************************************************************)
\* the Transports of the process: one without HeaderOrder, two with one
PoolOptions ==
    {o \in HeaderOptions :
        /\ o.PHeaderOrder = <<>>
        /\ o.HeaderOrder \in {<<>>, <<S_user_agent>>, <<S_dnt, S_accept>>}}

\* the requests whose headers are sorted
PoolRequests ==
    {r \in SortRequests : DOMAIN r.Header \subseteq {K_Accept, K_Dnt, K_User_Agent}}

\* headerSorterPool.Get(): a sorter lying in the pool, or a new one, whose order
\* is nil
PoolGet(p) == p \cup {<<>>}

\* sorter.order when the call returns: sortedKeyValuesBy has replaced it,
\* sortedKeyValues has left it alone
OrderAfter(o, sorterOrder) ==
    IF Len(o.HeaderOrder) > 0 THEN OrderMap(o.HeaderOrder) ELSE sorterOrder

\* defer headerSorterPool.Put(sorter); the pool may drop what it is given
PoolPut(p, sorterOrder) ==
    IF Cardinality(p \cup {sorterOrder}) <= MaxPooled THEN p \cup {sorterOrder} ELSE p

\* the sorted headers of r for a Transport with Options o that got a sorter with
\* sorterOrder from the pool
SortedHeadersWith(o, r, sorterOrder, iter) ==
    IF Len(o.HeaderOrder) > 0
    THEN sortedKeyValuesBy(r.Header, o.HeaderOrder, iter)
    ELSE sortedKeyValues(r.Header, sorterOrder, iter)

InitPool ==
    /\ opt \in PoolOptions
    /\ req = <<>>
    /\ lastKvs = <<>>
    /\ wire = <<>>
    /\ wires = {}
    /\ vlog = [count |-> 0, last |-> <<>>]
    /\ t2 = ZeroTransport
    /\ cc = NewConn("h2")
    /\ pc = "ready"
    /\ net = <<>>
    /\ done = NoDone
    /\ henc = {}
    /\ encErr = "nil"
    /\ rt = <<>>
    /\ strm = <<>>
    /\ pool = {}
    /\ dec = <<>>
    /\ ct = <<>>
    /\ fd = <<>>
    /\ rr = <<>>
    /\ srt = <<>>

\* encodeHeaders of some Transport of the process sorts the headers of a request:
\* Get, the range over the map, sort.Sort, and the deferred Put
SortCall ==
    /\ \E o \in PoolOptions, r \in PoolRequests :
       \E iter \in Perms(DOMAIN r.Header), sorterOrder \in PoolGet(pool) :
         /\ opt' = o
         /\ req' = <<r>>
         /\ lastKvs' = SortedHeadersWith(o, r, sorterOrder, iter)
         /\ pool' = PoolPut(pool \ {sorterOrder}, OrderAfter(o, sorterOrder))
    /\ UNCHANGED <<wire, wires, vlog, t2, cc, pc, net, done, henc, encErr, rt, strm, dec, fetchVars>>

\* the garbage collector empties the pool
PoolCleared ==
    /\ pool # {}
    /\ pool' = {}
    /\ UNCHANGED <<opt, t2, cc, pc, net, done, hdrVars, rt, strm, dec, fetchVars>>

NextPool == SortCall \/ PoolCleared

SpecPool == InitPool /\ [][NextPool]_vars

(***************************************************************************)
(* Transport.roundTrip: the retry loop around ClientConn.RoundTrip.        *)
(***************************************************************************)
\* what the connection-level variables hold while a call above the connection
\* is followed
ConnIdle ==
    /\ opt = PlainOptions
    /\ req = <<>>
    /\ lastKvs = <<>>
    /\ wire = <<>>
    /\ wires = {}
    /\ vlog = [count |-> 0, last |-> <<>>]
    /\ t2 = ZeroTransport
    /\ cc = NoConn
    /\ pc = "idle"
    /\ net = <<>>
    /\ done = NoDone
    /\ henc = {}
    /\ encErr = "nil"

connVars == <<opt, t2, cc, pc, net, done>>

\* the status codes of the responses an attempt may deliver
Statuses == {200, 404, 503}

\* the errors an attempt may return: a transport-level failure, and the error of
\* a cancelled context
AttemptErrors == {"connReset", "Canceled"}

\* what one pass of the loop gets from the pool and the connection:
\* GetClientConn fails, or the connection is not HTTP/2 and downgrade answers,
\* or cc.RoundTrip returns a response or an error
AttemptOutcomes ==
    [via : {"GetClientConn"}, status : {0}, err : {"ErrNoCachedConn"}]
    \cup [via : {"downgrade"}, status : {200}, err : {"nil"}]
    \cup [via : {"RoundTrip"}, status : Statuses, err : {"nil"}]
    \cup [via : {"RoundTrip"}, status : {0}, err : AttemptErrors]

\* a faulty test that takes a 5xx response for a failed attempt
AttemptFailedOrServerError(out) == out.err # "nil" \/ out.status >= 500

\* err != nil, after cc.RoundTrip
AttemptFailed(out) == out.err # "nil"

\* a faulty bound that lets the pass with retry = 7 retry as well
RetryAllowedOnceMore(retry) == retry <= 7

\* retry <= 6
RetryAllowed(retry) == retry <= 6

\* backoff := float64(uint(1) << (uint(retry) - 1)), in seconds, before the jitter
BackoffSeconds(retry) == 2 ^ (retry - 1)

\* the response roundTrip hands back: nil, or the response of an attempt
NoResponse == <<>>

ResponseOf(out, n) == <<[status |-> out.status, attempt |-> n]>>

\* roundTrip returns (res, err)
ReturnWith(r, res, err) == [r EXCEPT !.pc = "returned", !.res = res, !.err = err]

\* a faulty select that goes on with the loop when the context is done
CtxDoneContinues(r) == [r EXCEPT !.pc = "loop", !.retry = @ + 1]

\* case <-req.Context().Done(): timer.Stop(); err = req.Context().Err(), and the
\* return of the error that follows
CtxDoneCase(r) == ReturnWith(r, NoResponse, "Canceled")

\* a call of roundTrip for an https request, before its first pass
NewRoundTrip ==
    [pc |-> "loop", retry |-> 0, attempts |-> 0, log |-> <<>>, backoffs |-> <<>>,
     ctxDone |-> FALSE, cancelledWaiting |-> 0,
     res |-> NoResponse, err |-> "nil"]

InitRetry ==
    /\ ConnIdle
    /\ rt = <<NewRoundTrip>>
    /\ strm = <<>>
    /\ pool = {}
    /\ dec = <<>>
    /\ ct = <<>>
    /\ fd = <<>>
    /\ rr = <<>>
    /\ srt = <<>>

\* what shouldRetryRequest(req, err) may answer: its source is not at hand, so it
\* may find the request retryable (nil), or hand back err or an error of its own
RetryAnswers(err) == {"nil", err, "cannot retry"}

\* one pass of the loop of roundTrip, up to the select on the backoff timer
Attempt ==
    /\ Len(rt) = 1
    /\ rt[1].pc = "loop"
    /\ \E out \in AttemptOutcomes :
       \E answer \in RetryAnswers(out.err) :
         LET r == rt[1]
             n == IF out.via = "GetClientConn" THEN r.attempts ELSE r.attempts + 1
             r1 == [r EXCEPT !.attempts = n, !.log = Append(@, out)]
         IN rt' = <<IF out.via = "GetClientConn"
                    THEN ReturnWith(r1, NoResponse, out.err)
                    ELSE IF out.via = "downgrade"
                    THEN ReturnWith(r1, ResponseOf(out, n), "nil")
                    ELSE IF AttemptFailed(out) /\ RetryAllowed(r.retry)
                    THEN (IF answer # "nil"
                          THEN ReturnWith(r1, NoResponse, answer)
                          ELSE IF r.retry = 0
                          THEN [r1 EXCEPT !.retry = 1]
                          ELSE [r1 EXCEPT !.pc = "backoff",
                                          !.backoffs = Append(@, BackoffSeconds(r.retry))])
                    ELSE IF out.err # "nil"
                    THEN ReturnWith(r1, NoResponse, out.err)
                    ELSE ReturnWith(r1, ResponseOf(out, n), "nil")>>
    /\ UNCHANGED <<connVars, hdrVars, strm, pool, dec, fetchVars>>

\* case <-timer.C: continue
BackoffTimer ==
    /\ Len(rt) = 1
    /\ rt[1].pc = "backoff"
    /\ rt' = <<[rt[1] EXCEPT !.pc = "loop", !.retry = @ + 1]>>
    /\ UNCHANGED <<connVars, hdrVars, strm, pool, dec, fetchVars>>

\* the caller cancels the request's context; a roundTrip waiting in the select is
\* woken by it, with the case of the context chosen
CancelContext ==
    /\ Len(rt) = 1
    /\ ~rt[1].ctxDone
    /\ rt[1].pc # "returned"
    /\ rt' = <<IF rt[1].pc = "backoff"
               THEN [rt[1] EXCEPT !.ctxDone = TRUE, !.pc = "ctxWoken",
                                  !.cancelledWaiting = rt[1].attempts]
               ELSE [rt[1] EXCEPT !.ctxDone = TRUE]>>
    /\ UNCHANGED <<connVars, hdrVars, strm, pool, dec, fetchVars>>

\* case <-req.Context().Done(), for a roundTrip the cancellation woke, or one that
\* reached the select with the context already done
BackoffCtxDone ==
    /\ Len(rt) = 1
    /\ \/ rt[1].pc = "ctxWoken"
       \/ rt[1].pc = "backoff" /\ rt[1].ctxDone
    /\ rt' = <<CtxDoneCase(rt[1])>>
    /\ UNCHANGED <<connVars, hdrVars, strm, pool, dec, fetchVars>>

NextRetry == Attempt \/ BackoffTimer \/ CancelContext \/ BackoffCtxDone

SpecRetry == InitRetry /\ [][NextRetry]_vars

(***************************************************************************)
(* ClientConn.RoundTrip: the caller's goroutine waiting on its stream.     *)
(*                                                                         *)
(* A select whose goroutine finds several channels ready takes any of them;*)
(* a select that is parked is woken by the first channel that becomes      *)
(* ready, with that case.                                                  *)
(***************************************************************************)
\* the errors cs.abortErr may hold when the read loop aborts the stream
AbortErrors == {"RST_STREAM", "connClosed"}

\* ClientConn.RoundTrip after go cs.doRequest(req), before its select
NewStream ==
    [pc |-> "start", recv |-> FALSE, abort |-> FALSE, donec |-> FALSE,
     ctxDone |-> FALSE, reqCancel |-> FALSE, status |-> 0, bodyless |-> FALSE,
     abortErr |-> "nil", bodyWriteAborted |-> FALSE, waitFor |-> "", waitErr |-> "nil",
     recvAtCancel |-> FALSE, recvAtAbort |-> FALSE,
     res |-> NoResponse, err |-> "nil"]

\* the cases of the select of RoundTrip that are ready
ReadyCases(s) ==
    (IF s.recv THEN {"caseRecv"} ELSE {})
    \cup (IF s.abort THEN {"caseAbort"} ELSE {})
    \cup (IF s.ctxDone THEN {"caseCtx"} ELSE {})
    \cup (IF s.reqCancel THEN {"caseReqCancel"} ELSE {})

\* the results of waitDone that are ready: nil for donec, ctx.Err(),
\* errRequestCanceled
ReadyWaits(s) ==
    (IF s.donec THEN {"nil"} ELSE {})
    \cup (IF s.ctxDone THEN {"Canceled"} ELSE {})
    \cup (IF s.reqCancel THEN {"errRequestCanceled"} ELSE {})

\* a channel becomes ready: a goroutine parked in the select of RoundTrip wakes
\* with the case c, one parked in waitDone with the result w
Wake(s, c, w) ==
    IF s.pc = "parked" THEN [s EXCEPT !.pc = c]
    ELSE IF s.pc = "waitParked" /\ w # "" THEN [s EXCEPT !.pc = "waited", !.waitErr = w]
    ELSE s

InitStream ==
    /\ ConnIdle
    /\ rt = <<>>
    /\ strm = <<NewStream>>
    /\ pool = {}
    /\ dec = <<>>
    /\ ct = <<>>
    /\ fd = <<>>
    /\ rr = <<>>
    /\ srt = <<>>

\* the goroutine of RoundTrip reaches the select of its loop
ReachSelect ==
    /\ Len(strm) = 1
    /\ strm[1].pc = "start"
    /\ IF ReadyCases(strm[1]) = {}
       THEN strm' = <<[strm[1] EXCEPT !.pc = "parked"]>>
       ELSE \E c \in ReadyCases(strm[1]) : strm' = <<[strm[1] EXCEPT !.pc = c]>>
    /\ UNCHANGED <<connVars, hdrVars, rt, pool, dec, fetchVars>>

\* the read loop has the response headers: cs.res is set and cs.respHeaderRecv
\* closed
HeadersArrive ==
    /\ Len(strm) = 1
    /\ strm[1].pc # "returned"
    /\ ~strm[1].recv
    /\ \E st \in Statuses, nb \in BOOLEAN :
         strm' = <<Wake([strm[1] EXCEPT !.recv = TRUE, !.status = st, !.bodyless = nb],
                        "caseRecv", "")>>
    /\ UNCHANGED <<connVars, hdrVars, rt, pool, dec, fetchVars>>

\* the read loop aborts the stream: cs.abortErr is set and cs.abort closed
AbortStream ==
    /\ Len(strm) = 1
    /\ strm[1].pc # "returned"
    /\ ~strm[1].abort
    /\ \E e \in AbortErrors :
         strm' = <<Wake([strm[1] EXCEPT !.abort = TRUE, !.abortErr = e], "caseAbort", "")>>
    /\ UNCHANGED <<connVars, hdrVars, rt, pool, dec, fetchVars>>

\* the caller cancels the context of the request
CancelCtx ==
    /\ Len(strm) = 1
    /\ strm[1].pc # "returned"
    /\ ~strm[1].ctxDone
    /\ strm' = <<Wake([strm[1] EXCEPT !.ctxDone = TRUE, !.recvAtCancel = strm[1].recv],
                      "caseCtx", "Canceled")>>
    /\ UNCHANGED <<connVars, hdrVars, rt, pool, dec, fetchVars>>

\* the caller closes req.Cancel
CancelReq ==
    /\ Len(strm) = 1
    /\ strm[1].pc # "returned"
    /\ ~strm[1].reqCancel
    /\ strm' = <<Wake([strm[1] EXCEPT !.reqCancel = TRUE],
                      "caseReqCancel", "errRequestCanceled")>>
    /\ UNCHANGED <<connVars, hdrVars, rt, pool, dec, fetchVars>>

\* the stream is over: cs.donec is closed
StreamDone ==
    /\ Len(strm) = 1
    /\ strm[1].pc # "returned"
    /\ ~strm[1].donec
    /\ strm' = <<Wake([strm[1] EXCEPT !.donec = TRUE], strm[1].pc, "nil")>>
    /\ UNCHANGED <<connVars, hdrVars, rt, pool, dec, fetchVars>>

\* handleResponseHeaders, up to its call of waitDone
HandleResponseHeaders ==
    /\ Len(strm) = 1
    /\ strm[1].pc = "caseRecv"
    /\ LET s == [strm[1] EXCEPT !.bodyWriteAborted = (strm[1].status > 299)]
       IN strm' = <<IF s.bodyless
                    THEN [s EXCEPT !.pc = "waitDone", !.waitFor = "headers"]
                    ELSE [s EXCEPT !.pc = "returned",
                                   !.res = <<[status |-> s.status, attempt |-> 1]>>]>>
    /\ UNCHANGED <<connVars, hdrVars, rt, pool, dec, fetchVars>>

\* case <-cs.abort: the inner select prefers cs.respHeaderRecv, and falls back to
\* waitDone and cs.abortErr
CaseAbort ==
    /\ Len(strm) = 1
    /\ strm[1].pc = "caseAbort"
    /\ strm' = <<IF strm[1].recv
                 THEN [strm[1] EXCEPT !.pc = "caseRecv", !.recvAtAbort = TRUE]
                 ELSE [strm[1] EXCEPT !.pc = "waitDone", !.waitFor = "abort"]>>
    /\ UNCHANGED <<connVars, hdrVars, rt, pool, dec, fetchVars>>

\* cs.abortStream(err); return nil, cancelRequest(cs, err)
Cancelled(s, e) ==
    [s EXCEPT !.pc = "returned", !.err = e, !.abort = TRUE,
              !.abortErr = IF s.abort THEN @ ELSE e]

\* case <-ctx.Done() and case <-cs.reqCancel
CaseCancelled ==
    /\ Len(strm) = 1
    /\ strm[1].pc \in {"caseCtx", "caseReqCancel"}
    /\ strm' = <<Cancelled(strm[1], IF strm[1].pc = "caseCtx" THEN "Canceled"
                                    ELSE "errRequestCanceled")>>
    /\ UNCHANGED <<connVars, hdrVars, rt, pool, dec, fetchVars>>

\* the goroutine reaches the select of waitDone
ReachWaitDone ==
    /\ Len(strm) = 1
    /\ strm[1].pc = "waitDone"
    /\ IF ReadyWaits(strm[1]) = {}
       THEN strm' = <<[strm[1] EXCEPT !.pc = "waitParked"]>>
       ELSE \E w \in ReadyWaits(strm[1]) :
               strm' = <<[strm[1] EXCEPT !.pc = "waited", !.waitErr = w]>>
    /\ UNCHANGED <<connVars, hdrVars, rt, pool, dec, fetchVars>>

\* waitDone has returned: handleResponseHeaders returns its error or the response,
\* the abort case returns cs.abortErr
AfterWaitDone ==
    /\ Len(strm) = 1
    /\ strm[1].pc = "waited"
    /\ LET s == strm[1]
       IN strm' = <<IF s.waitFor = "abort"
                    THEN [s EXCEPT !.pc = "returned", !.err = s.abortErr]
                    ELSE IF s.waitErr # "nil"
                    THEN [s EXCEPT !.pc = "returned", !.err = s.waitErr]
                    ELSE [s EXCEPT !.pc = "returned",
                                   !.res = <<[status |-> s.status, attempt |-> 1]>>]>>
    /\ UNCHANGED <<connVars, hdrVars, rt, pool, dec, fetchVars>>

NextStream ==
    \/ ReachSelect \/ HeadersArrive \/ AbortStream \/ CancelCtx \/ CancelReq \/ StreamDone
    \/ HandleResponseHeaders \/ CaseAbort \/ CaseCancelled \/ ReachWaitDone \/ AfterWaitDone

SpecStream == InitStream /\ [][NextStream]_vars

(***************************************************************************)
(* Transport.RoundTrip: Accept-Encoding and DecodeResponse.                *)
(*                                                                         *)
(* A Content-Encoding header is the list of its comma-separated, trimmed   *)
(* tokens; a body is the list of the readers wrapped around it.            *)
(***************************************************************************)
\* var encodings
encodings == <<"gzip", "deflate", "br">>

\* the Content-Encoding of the responses roundTrip hands back
ContentEncodings == {<<>>, <<"gzip">>, <<"deflate", "br">>, <<"zstd">>, <<"gzip", "zstd">>}

\* the loop of DecodeResponse over the tokens left, on the response as it is
RECURSIVE DecodeLoop(_, _)
DecodeLoop(res, tokens) ==
    IF Len(tokens) = 0 THEN [res |-> <<res>>, err |-> "nil"]
    ELSE IF Head(tokens) \notin {"deflate", "gzip", "br"}
    THEN [res |-> <<>>, err |-> "unsupported compression type"]
    ELSE DecodeLoop([res EXCEPT !.readers = Append(@, Head(tokens)),
                                !.ContentEncoding = <<>>,
                                !.hasContentLength = FALSE,
                                !.ContentLength = -1,
                                !.Uncompressed = TRUE],
                    Tail(tokens))

\* DecodeResponse(res)
DecodeResponse(res) ==
    IF res.ContentEncoding = <<>> THEN [res |-> <<res>>, err |-> "nil"]
    ELSE DecodeLoop(res, res.ContentEncoding)

\* a response of roundTrip with Content-Encoding ce
ResponseWith(ce) ==
    [ContentEncoding |-> ce, hasContentLength |-> TRUE, ContentLength |-> 20,
     readers |-> <<>>, Uncompressed |-> FALSE]

\* a call of Transport.RoundTrip: the request's Accept-Encoding and Range headers
\* (<<>> when absent), its method, and what t.disableCompression() answers
NewCall(ae, range, method, disable) ==
    [pc |-> "start", AcceptEncoding |-> ae, Range |-> range, Method |-> method,
     disableCompression |-> disable, added |-> FALSE, got |-> <<>>,
     res |-> <<>>, err |-> "nil"]

InitDecode ==
    /\ ConnIdle
    /\ rt = <<>>
    /\ strm = <<>>
    /\ pool = {}
    /\ \E ae \in {<<>>, <<"gzip">>, <<"identity">>}, range \in {<<>>, <<"bytes=0-9">>},
          method \in {"GET", "HEAD"}, disable \in BOOLEAN :
         dec = <<NewCall(ae, range, method, disable)>>
    /\ ct = <<>>
    /\ fd = <<>>
    /\ rr = <<>>
    /\ srt = <<>>

\* the head of Transport.RoundTrip: the Transport asks for compression when the
\* request does not say anything about it
AddAcceptEncoding ==
    /\ Len(dec) = 1
    /\ dec[1].pc = "start"
    /\ LET d == dec[1]
       IN dec' = <<IF /\ d.AcceptEncoding = <<>>
                      /\ d.Range = <<>>
                      /\ d.Method # "HEAD"
                      /\ ~d.disableCompression
                   THEN [d EXCEPT !.pc = "roundTrip", !.AcceptEncoding = encodings,
                                  !.added = TRUE]
                   ELSE [d EXCEPT !.pc = "roundTrip"]>>
    /\ UNCHANGED <<connVars, hdrVars, rt, strm, pool, fetchVars>>

\* res, err := t.roundTrip(req), and the return of an error
InnerRoundTrip ==
    /\ Len(dec) = 1
    /\ dec[1].pc = "roundTrip"
    /\ \/ dec' = <<[dec[1] EXCEPT !.pc = "returned", !.err = "connReset"]>>
       \/ \E ce \in ContentEncodings :
            dec' = <<[dec[1] EXCEPT !.pc = "decode", !.got = <<ResponseWith(ce)>>]>>
    /\ UNCHANGED <<connVars, hdrVars, rt, strm, pool, fetchVars>>

\* if !t.disableCompression() { return DecodeResponse(res) }; return res, nil
ReturnResponse ==
    /\ Len(dec) = 1
    /\ dec[1].pc = "decode"
    /\ LET d == dec[1]
           r == DecodeResponse(d.got[1])
       IN dec' = <<IF ~d.disableCompression
                   THEN [d EXCEPT !.pc = "returned", !.res = r.res, !.err = r.err]
                   ELSE [d EXCEPT !.pc = "returned", !.res = d.got]>>
    /\ UNCHANGED <<connVars, hdrVars, rt, strm, pool, fetchVars>>

NextDecode == AddAcceptEncoding \/ InnerRoundTrip \/ ReturnResponse

SpecDecode == InitDecode /\ [][NextDecode]_vars

(***************************************************************************)
(* CacheTransport (package fetch, cache.go).  A header map is a function   *)
(* from the canonical header names to a value, <<>> for a header that is   *)
(* absent (Header.Get gives ""); a present value is <<v>>.  Cache-Control  *)
(* holds the map parseCacheControl gives, Date and Expires hold seconds.   *)
(***************************************************************************)
stale == 0
fresh == 1
transparent == 2

HeaderNames ==
    {"Range", "Cache-Control", "Etag", "Last-Modified", "If-None-Match",
     "If-Modified-Since", "Accept", "Vary", "X-Varied-Accept", "Date", "Expires",
     "X-From-Cache"}

NoHeader == [h \in HeaderNames |-> <<>>]

\* a header map holding the pairs of the function kv and nothing else
HeaderOf(kv) == [h \in HeaderNames |-> IF h \in DOMAIN kv THEN <<kv[h]>> ELSE <<>>]

\* http.Header.Set
HeaderSet(h, name, value) == [h EXCEPT ![name] = <<value>>]

\* a Cache-Control directive without a value, with a number, with something else
NoValue == [kind |-> "empty", n |-> 0]
Seconds(n) == [kind |-> "num", n |-> n]
BadValue == [kind |-> "bad", n |-> 0]

\* time.ParseDuration(v + "s")
ParseDuration(v) ==
    IF v.kind = "num" THEN [err |-> FALSE, d |-> v.n] ELSE [err |-> TRUE, d |-> 0]

\* parseCacheControl: the directives of the Cache-Control header, none without it
parseCacheControl(headers) ==
    IF headers["Cache-Control"] = <<>> THEN <<>> ELSE headers["Cache-Control"][1]

\* cacheKey returns the cache key for req
cacheKey(r) == IF r.Method = "GET" THEN r.URL ELSE r.Method \o " " \o r.URL

\* the test both policies make: GET or HEAD, and no Range header
Cacheable(r, header) == r.Method \in {"GET", "HEAD"} /\ header["Range"] = <<>>

\* cachedResponse: Cache.Get and http.ReadResponse; an error without an entry
cachedResponse(c, r) ==
    IF c[cacheKey(r)] = <<>> THEN [resp |-> <<>>, err |-> "miss"]
    ELSE [resp |-> c[cacheKey(r)], err |-> "nil"]

\* varyMatches: every header listed in Vary has the value the cached response
\* was stored for (the model's responses vary on Accept or on nothing)
varyMatches(cachedResp, reqHeader) ==
    \A header \in (IF cachedResp.Header["Vary"] = <<>> THEN {}
                   ELSE {cachedResp.Header["Vary"][1]}) :
        reqHeader[header] = cachedResp.Header["X-Varied-" \o header]

\* a faulty test that sends every request to the server, fresh entry or not
AlwaysRevalidate(freshness) == FALSE

\* freshness == fresh: the cached response can be returned as it is
UseCached(freshness) == freshness = fresh

\* getFreshness, with now the reading of the clock
getFreshness(respHeaders, reqHeaders, now) ==
    LET respCacheControl == parseCacheControl(respHeaders)
        reqCacheControl == parseCacheControl(reqHeaders)
    IN IF "no-cache" \in DOMAIN reqCacheControl THEN transparent
       ELSE IF "no-cache" \in DOMAIN respCacheControl THEN stale
       ELSE IF "only-if-cached" \in DOMAIN reqCacheControl THEN fresh
       ELSE IF respHeaders["Date"] = <<>> THEN stale
       ELSE
        LET date == respHeaders["Date"][1]
            age0 == now - date
            life0 ==
                IF "max-age" \in DOMAIN respCacheControl
                THEN ParseDuration(respCacheControl["max-age"]).d
                ELSE IF respHeaders["Expires"] = <<>> THEN 0
                ELSE IF respHeaders["Expires"][1] < 0 THEN 0
                ELSE respHeaders["Expires"][1] - date
            lifetime ==
                IF "max-age" \in DOMAIN reqCacheControl
                THEN ParseDuration(reqCacheControl["max-age"]).d
                ELSE life0
            age1 ==
                IF /\ "min-fresh" \in DOMAIN reqCacheControl
                   /\ ~ParseDuration(reqCacheControl["min-fresh"]).err
                THEN age0 + ParseDuration(reqCacheControl["min-fresh"]).d
                ELSE age0
        IN IF "max-stale" \in DOMAIN reqCacheControl /\ reqCacheControl["max-stale"].kind = "empty"
           THEN fresh
           ELSE LET currentAge ==
                       IF /\ "max-stale" \in DOMAIN reqCacheControl
                          /\ ~ParseDuration(reqCacheControl["max-stale"]).err
                       THEN age1 - ParseDuration(reqCacheControl["max-stale"]).d
                       ELSE age1
                IN IF lifetime > currentAge THEN fresh ELSE stale

\* canStaleOnError: the request or the response carries stale-if-error
canStaleOnError(respHeaders, reqHeaders, now) ==
    LET respCacheControl == parseCacheControl(respHeaders)
        reqCacheControl == parseCacheControl(reqHeaders)
        has(c) == "stale-if-error" \in DOMAIN c
        fails(c) == has(c) /\ c["stale-if-error"].kind = "bad"
        bare(c) == has(c) /\ c["stale-if-error"].kind = "empty"
        lifetime == IF has(reqCacheControl) THEN reqCacheControl["stale-if-error"].n
                    ELSE IF has(respCacheControl) THEN respCacheControl["stale-if-error"].n
                    ELSE -1
    IN IF fails(respCacheControl) THEN FALSE
       ELSE IF bare(respCacheControl) THEN TRUE
       ELSE IF fails(reqCacheControl) THEN FALSE
       ELSE IF bare(reqCacheControl) THEN TRUE
       ELSE /\ lifetime >= 0
            /\ respHeaders["Date"] # <<>>
            /\ lifetime > now - respHeaders["Date"][1]

\* canStore: neither side says no-store
canStore(reqCacheControl, respCacheControl) ==
    /\ "no-store" \notin DOMAIN respCacheControl
    /\ "no-store" \notin DOMAIN reqCacheControl

\* newGatewayTimeoutResponse
newGatewayTimeoutResponse == [StatusCode |-> 504, Header |-> NoHeader]

\* the 304 case: every header the answer carries (none of the model's is
\* hop-by-hop) replaces the cached one
MergeEndToEnd(cachedHeader, respHeader) ==
    [h \in HeaderNames |-> IF respHeader[h] # <<>> THEN respHeader[h] ELSE cachedHeader[h]]

\* the Vary loop before a response is stored: X-Varied-<key> records the
\* request's value of a header the response varies on, when it has one
WithVaried(respHeader, reqHeader) ==
    IF respHeader["Vary"] # <<>> /\ reqHeader[respHeader["Vary"][1]] # <<>>
    THEN [respHeader EXCEPT !["X-Varied-" \o respHeader["Vary"][1]] =
                                reqHeader[respHeader["Vary"][1]]]
    ELSE respHeader

\* the requests a caller hands to CacheTransport.RoundTrip
CacheURLs == {"/a", "/b"}

CacheRequestHeaders ==
    {NoHeader,
     HeaderOf("Range" :> "bytes=0-9"),
     HeaderOf("Cache-Control" :> ("no-cache" :> NoValue)),
     HeaderOf("Cache-Control" :> ("only-if-cached" :> NoValue)),
     HeaderOf("Cache-Control" :> ("max-stale" :> NoValue)),
     HeaderOf("Cache-Control" :> ("no-store" :> NoValue)),
     HeaderOf("Cache-Control" :> ("stale-if-error" :> NoValue)),
     HeaderOf("If-None-Match" :> "caller"),
     HeaderOf("Etag" :> "caller"),
     HeaderOf("Accept" :> "text/html")}

\* every method with every kind of header on "/a", a plain GET on "/b"
CacheRequests ==
    [Method : {"GET", "HEAD", "POST"}, URL : {"/a"}, Header : CacheRequestHeaders]
    \cup [Method : {"GET"}, URL : {"/b"}, Header : {NoHeader}]

\* the requests made under a policy: the Dummy policy reads the method, the URL
\* and Range only, and gets one of the Cache-Control headers to show it
RequestsUnder(policy) ==
    IF policy = "dummy"
    THEN {r \in CacheRequests :
            r.Header \in {NoHeader, HeaderOf("Range" :> "bytes=0-9"),
                          HeaderOf("Cache-Control" :> ("no-store" :> NoValue))}}
    ELSE CacheRequests

CacheKeys == {cacheKey(r) : r \in CacheRequests}

\* how far the clock moves between two calls, in seconds
ClockSteps == {0, 100}

\* what the underlying transport answers at time now: an error, or a response
ServerErrors == {"connReset"}

ServerResponses(now) ==
    {[StatusCode |-> 200,
      Header |-> HeaderOf("Date" :> now @@ "Cache-Control" :> ("max-age" :> Seconds(60))
                          @@ "Etag" :> "v1")],
     [StatusCode |-> 200, Header |-> HeaderOf("Etag" :> "v1" @@ "Last-Modified" :> "d1")],
     [StatusCode |-> 200,
      Header |-> HeaderOf("Date" :> now @@ "Cache-Control" :> ("max-age" :> Seconds(60))
                          @@ "Vary" :> "Accept")],
     [StatusCode |-> 200, Header |-> HeaderOf("Cache-Control" :> ("no-store" :> NoValue))],
     [StatusCode |-> 304, Header |-> HeaderOf("Date" :> now)],
     [StatusCode |-> 404, Header |-> NoHeader],
     [StatusCode |-> 500, Header |-> NoHeader]}

\* Cache.Set and Cache.Del on a cache that keeps what it is given
CacheSet(c, key, resp) == [c EXCEPT ![key] = <<resp>>]
CacheDel(c, key) == [c EXCEPT ![key] = <<>>]

\* cachedResp.Header.Set(XFromCache, "1") when MarkCachedResponses is set
Marked(t, resp) ==
    IF t.MarkCachedResponses
    THEN [resp EXCEPT !.Header = HeaderSet(@, "X-From-Cache", "1")]
    ELSE resp

\* cloneRequest: a copy of the struct with a new header map holding the same
\* entries; maps is the heap of header maps, the clone's map is the new last one
cloneRequest(r, maps) ==
    [req |-> [r EXCEPT !.Header = Len(maps) + 1], maps |-> Append(maps, maps[r.Header])]

\* the stale branch of RoundTripRFC2616: validators go on a clone of the request
AddValidators(r, maps, cachedResp) ==
    LET etag == cachedResp.Header["Etag"]
        lastModified == cachedResp.Header["Last-Modified"]
        s1 == IF etag # <<>> /\ maps[r.Header]["Etag"] = <<>>
              THEN LET c == cloneRequest(r, maps)
                   IN [req2 |-> <<c.req>>,
                       maps |-> [c.maps EXCEPT ![c.req.Header] =
                                    HeaderSet(@, "If-None-Match", etag[1])]]
              ELSE [req2 |-> <<>>, maps |-> maps]
        s2 == IF lastModified # <<>> /\ maps[r.Header]["Last-Modified"] = <<>>
              THEN LET c == IF s1.req2 = <<>> THEN cloneRequest(r, s1.maps)
                            ELSE [req |-> s1.req2[1], maps |-> s1.maps]
                   IN [req2 |-> <<c.req>>,
                       maps |-> [c.maps EXCEPT ![c.req.Header] =
                                    HeaderSet(@, "If-Modified-Since", lastModified[1])]]
              ELSE s1
    IN [req |-> IF s2.req2 # <<>> THEN s2.req2[1] ELSE r, maps |-> s2.maps]

\* NewCacheTransport, and the struct literal with another Policy or without marks
NewCacheTransport(policy, mark) ==
    [Policy |-> policy,
     MarkCachedResponses |-> mark,
     cache |-> [k \in CacheKeys |-> <<>>],
     now |-> 0,
     calls |-> 0,            \* RoundTrip calls begun
     completed |-> {},       \* Dummy policy: the requests whose calls returned a response
     pc |-> "idle",
     caller |-> <<>>,        \* the request as the caller built it
     maps |-> <<>>,          \* the header maps of this call: the caller's map is maps[1]
     req |-> <<>>,           \* the local variable req: Header is an index into maps
     cachedResp |-> <<>>,    \* the local variable cachedResp
     freshness |-> <<>>,     \* what getFreshness returned, when it was called
     sent |-> <<>>,          \* the requests handed to transport.RoundTrip, with their headers
     answer |-> <<>>,        \* what transport.RoundTrip returned
     onEOF |-> <<>>,         \* the cachingReadCloser around the returned body
     dumped |-> <<>>,        \* what OnEOF dumped and gave to Cache.Set
     res |-> <<>>,
     err |-> "nil"]

InitCache ==
    /\ ConnIdle
    /\ rt = <<>>
    /\ strm = <<>>
    /\ pool = {}
    /\ dec = <<>>
    /\ ct \in {<<NewCacheTransport("rfc2616", TRUE)>>, <<NewCacheTransport("dummy", FALSE)>>}
    /\ fd = <<>>
    /\ rr = <<>>
    /\ srt = <<>>

\* the call returns resp and a nil error
ReturnResponseOf(t, resp) ==
    [t EXCEPT !.pc = "done", !.res = <<resp>>, !.err = "nil",
              !.completed = IF t.Policy = "dummy"
                            THEN @ \cup {t.caller[1]} ELSE @]

\* the call returns nil and err
ReturnError(t, err) == [t EXCEPT !.pc = "done", !.res = <<>>, !.err = err]

\* the bytes the body of a response yields
ResponseBody == <<"b1", "b2">>

\* resp.Body: the body the server sent, and the empty body that
\* newGatewayTimeoutResponse reads from "HTTP/1.1 504 Gateway Timeout\r\n\r\n"
BodyOf(resp) == IF resp.StatusCode = newGatewayTimeoutResponse.StatusCode THEN <<>>
                ELSE ResponseBody

\* &cachingReadCloser{R: resp.Body, OnEOF: ...}: R yields body, buf is empty
cachingReadCloser(key, resp) ==
    [key |-> key, resp |-> resp, body |-> BodyOf(resp), buf |-> <<>>]

\* a faulty test that takes every Read for the one that returns io.EOF
EveryRead(c) == TRUE

\* errors.Is(err, io.EOF) in cachingReadCloser.Read: R is drained
IsEOF(c) == c.buf = c.body

\* the tail of RoundTripRFC2616: the response is stored, at EOF of its body for
\* a GET and at once otherwise, or the entry is deleted; then resp is returned
StoreAndReturn(t, resp) ==
    LET r == t.req[1]
        key == cacheKey(t.caller[1])
        reqHeader == t.maps[r.Header]
    IN IF /\ Cacheable(t.caller[1], t.caller[1].Header)
          /\ canStore(parseCacheControl(reqHeader), parseCacheControl(resp.Header))
       THEN LET varied == [resp EXCEPT !.Header = WithVaried(@, reqHeader)]
            IN IF r.Method = "GET"
               THEN ReturnResponseOf([t EXCEPT !.onEOF = <<cachingReadCloser(key, varied)>>],
                                     varied)
               ELSE ReturnResponseOf([t EXCEPT !.cache = CacheSet(@, key, varied)], varied)
       ELSE ReturnResponseOf([t EXCEPT !.cache = CacheDel(@, key)], resp)

\* RoundTripDummy up to the call of the underlying transport
BeginDummy(t) ==
    LET r == t.caller[1]
        cacheable == Cacheable(r, r.Header)
        got == IF cacheable THEN cachedResponse(t.cache, r) ELSE [resp |-> <<>>, err |-> "nil"]
        t1 == IF cacheable THEN t ELSE [t EXCEPT !.cache = CacheDel(@, cacheKey(r))]
    IN IF cacheable /\ got.resp # <<>> /\ got.err = "nil"
       THEN ReturnResponseOf([t1 EXCEPT !.cachedResp = got.resp], Marked(t, got.resp[1]))
       ELSE [t1 EXCEPT !.pc = "transport"]

\* RoundTripRFC2616 up to the call of the underlying transport
BeginRFC2616(t) ==
    LET r == t.caller[1]
        cacheable == Cacheable(r, r.Header)
        got == IF cacheable THEN cachedResponse(t.cache, r) ELSE [resp |-> <<>>, err |-> "nil"]
        t1 == IF cacheable THEN t ELSE [t EXCEPT !.cache = CacheDel(@, cacheKey(r))]
    IN IF cacheable /\ got.resp # <<>> /\ got.err = "nil"
       THEN LET cachedResp == Marked(t, got.resp[1])
                t2c == [t1 EXCEPT !.cachedResp = <<cachedResp>>]
            IN IF varyMatches(cachedResp, r.Header)
               THEN LET freshness == getFreshness(cachedResp.Header, r.Header, t.now)
                        t3 == [t2c EXCEPT !.freshness = <<freshness>>]
                    IN IF UseCached(freshness)
                       THEN ReturnResponseOf(t3, cachedResp)
                       ELSE IF freshness = stale
                       THEN LET v == AddValidators(t3.req[1], t3.maps, cachedResp)
                            IN [t3 EXCEPT !.req = <<v.req>>, !.maps = v.maps,
                                          !.pc = "transport"]
                       ELSE [t3 EXCEPT !.pc = "transport"]
               ELSE [t2c EXCEPT !.pc = "transport"]
       ELSE IF "only-if-cached" \in DOMAIN parseCacheControl(r.Header)
       THEN StoreAndReturn(t1, newGatewayTimeoutResponse)
       ELSE [t1 EXCEPT !.pc = "transport"]

\* CacheTransport.RoundTrip(req), until it returns or calls transport.RoundTrip
RoundTrip ==
    /\ Len(ct) = 1
    /\ ct[1].pc = "idle"
    /\ ct[1].calls < MaxRoundTrips
    /\ \E r \in RequestsUnder(ct[1].Policy), step \in ClockSteps :
         LET t == [ct[1] EXCEPT !.now = @ + step, !.calls = @ + 1,
                                !.caller = <<r>>, !.maps = <<r.Header>>,
                                !.req = <<[r EXCEPT !.Header = 1]>>]
         IN ct' = <<IF t.Policy = "dummy" THEN BeginDummy(t) ELSE BeginRFC2616(t)>>
    /\ UNCHANGED <<connVars, hdrVars, tripVars, fd, rr, srt>>

\* RoundTripDummy after transport.RoundTrip returned resp
EndDummy(t, resp) ==
    LET r == t.caller[1]
        key == cacheKey(r)
    IN IF Cacheable(r, r.Header)
       THEN ReturnResponseOf([t EXCEPT !.cache = CacheSet(@, key, resp)], resp)
       ELSE ReturnResponseOf([t EXCEPT !.cache = CacheDel(@, key)], resp)

\* the switch of RoundTripRFC2616 after transport.RoundTrip, with a cached response
EndCached(t, ans) ==
    LET r == t.req[1]
        cachedResp == t.cachedResp[1]
        failed == ans.err # "nil"
    IN IF ~failed /\ r.Method = "GET" /\ ans.resp.StatusCode = 304
       THEN StoreAndReturn(t, [cachedResp EXCEPT !.Header =
                                   MergeEndToEnd(@, ans.resp.Header)])
       ELSE IF /\ failed \/ ans.resp.StatusCode >= 500
               /\ r.Method = "GET"
               /\ canStaleOnError(cachedResp.Header, t.maps[r.Header], t.now)
       THEN ReturnResponseOf(t, cachedResp)
       ELSE LET t1 == IF failed \/ ans.resp.StatusCode # 200
                      THEN [t EXCEPT !.cache = CacheDel(@, cacheKey(t.caller[1]))]
                      ELSE t
            IN IF failed THEN ReturnError(t1, ans.err) ELSE StoreAndReturn(t1, ans.resp)

\* transport.RoundTrip(req) answers, and the call runs to its return
TransportAnswers ==
    /\ Len(ct) = 1
    /\ ct[1].pc = "transport"
    /\ \E ans \in {[resp |-> x, err |-> "nil"] : x \in ServerResponses(ct[1].now)}
                  \cup {[resp |-> <<>>, err |-> e] : e \in ServerErrors} :
         LET t == [ct[1] EXCEPT !.sent = Append(@, [ct[1].req[1] EXCEPT
                                                      !.Header = ct[1].maps[ct[1].req[1].Header]]),
                                !.answer = <<ans>>]
         IN ct' = <<IF t.cachedResp # <<>> /\ t.Policy = "rfc2616" THEN EndCached(t, ans)
                    ELSE IF ans.err # "nil" THEN ReturnError(t, ans.err)
                    ELSE IF t.Policy = "dummy" THEN EndDummy(t, ans.resp)
                    ELSE StoreAndReturn(t, ans.resp)>>
    /\ UNCHANGED <<connVars, hdrVars, tripVars, fd, rr, srt>>

\* cachingReadCloser.Read with bytes left in R: the next one goes to the caller
\* and to buf
ReadBody ==
    /\ Len(ct) = 1
    /\ ct[1].pc = "done"
    /\ ct[1].onEOF # <<>>
    /\ Len(ct[1].onEOF[1].buf) < Len(ct[1].onEOF[1].body)
    /\ ct' = <<[ct[1] EXCEPT !.onEOF[1].buf =
                    Append(@, ct[1].onEOF[1].body[Len(ct[1].onEOF[1].buf) + 1])]>>
    /\ UNCHANGED <<connVars, hdrVars, tripVars, fd, rr, srt>>

\* cachingReadCloser.Read returns io.EOF: OnEOF dumps the response with the
\* content of buf as its body and gives the dump to Cache.Set
ReadToEOF ==
    /\ Len(ct) = 1
    /\ ct[1].pc = "done"
    /\ ct[1].onEOF # <<>>
    /\ IsEOF(ct[1].onEOF[1])
    /\ ct' = <<[ct[1] EXCEPT !.cache = CacheSet(@, ct[1].onEOF[1].key, ct[1].onEOF[1].resp),
                             !.dumped = <<[key |-> ct[1].onEOF[1].key,
                                           resp |-> ct[1].onEOF[1].resp,
                                           body |-> ct[1].onEOF[1].buf]>>,
                             !.onEOF = <<>>]>>
    /\ UNCHANGED <<connVars, hdrVars, tripVars, fd, rr, srt>>

\* the caller is done with the response, and closes its body if it has not
CallOver ==
    /\ Len(ct) = 1
    /\ ct[1].pc = "done"
    /\ ct' = <<[ct[1] EXCEPT !.pc = "idle", !.caller = <<>>, !.maps = <<>>, !.req = <<>>,
                             !.cachedResp = <<>>, !.freshness = <<>>, !.sent = <<>>,
                             !.answer = <<>>, !.onEOF = <<>>, !.dumped = <<>>,
                             !.res = <<>>, !.err = "nil"]>>
    /\ UNCHANGED <<connVars, hdrVars, tripVars, fd, rr, srt>>

NextCache == RoundTrip \/ TransportAnswers \/ ReadBody \/ ReadToEOF \/ CallOver

SpecCache == InitCache /\ [][NextCache]_vars

(***************************************************************************)
(* Fetch.Do (package fetch): the default headers, the retry on status      *)
(* codes and the wrapping of the response body.                            *)
(***************************************************************************)
DefaultRetryTimes == 3

\* http.StatusInternalServerError, BadGateway, ServiceUnavailable,
\* GatewayTimeout, RequestTimeout
DefaultRetryHTTPCodes == {500, 502, 503, 504, 408}

DefaultHeaderKeys == {"Accept", "Accept-Language", "User-Agent"}

\* a < b on uint, the operands written as their two's complement reading
UintLess(a, b) == IF (a < 0) = (b < 0) THEN a < b ELSE b < 0

Min(a, b) == IF a < b THEN a ELSE b

\* the value of times a pass through the label RETRY goes on with, were the
\* counter declared before the label: a faulty reading that keeps the count
TimesKept(times) == times

\* "RETRY: times := uint(0)": the jump back to the label runs the declaration
\* again, whatever the count was
TimesAtRetry(times) == 0

\* NewFetch: the fields Do reads
NewFetch(o) ==
    [retryTimes |-> Min(o.RetryTimes, 1),
     retryHTTPCodes |-> IF o.RetryHTTPCodes = {} THEN DefaultRetryHTTPCodes
                        ELSE o.RetryHTTPCodes,
     headers |-> IF o.Headers = {} THEN DefaultHeaderKeys ELSE o.Headers,
     charsetAutoDetect |-> o.CharsetAutoDetect]

\* the Options of a Fetch, newFetcherDefault's among them
FetchOptions ==
    [RetryTimes : {-1, 0, 1, DefaultRetryTimes},
     RetryHTTPCodes : {{}, {503}},
     Headers : {{}},
     CharsetAutoDetect : BOOLEAN]

\* what f.Client.Do returns: an error, or a response with a status, a
\* Content-Length, and a body that can be read or fails at its first read
ClientErrors == {"clientErr"}

ClientResponses ==
    [StatusCode : {200, 404, 500, 503}, ContentLength : {0, 1}, readable : {TRUE}]
    \cup [StatusCode : {200}, ContentLength : {1}, readable : {FALSE}]

\* a call of Fetch.Do(req) after the loop over f.headers
NewDo(o, method, keys) ==
    [opt |-> o,
     f |-> NewFetch(o),
     Method |-> method,
     HeaderKeys |-> keys \cup {k \in NewFetch(o).headers : k \notin keys},
     times |-> 0,
     log |-> <<>>,          \* what f.Client.Do returned, call by call
     pc |-> "RETRY",
     res |-> <<>>,
     err |-> "nil"]

InitDo ==
    /\ ConnIdle
    /\ rt = <<>>
    /\ strm = <<>>
    /\ pool = {}
    /\ dec = <<>>
    /\ ct = <<>>
    /\ \E o \in FetchOptions, method \in {"GET", "HEAD"}, keys \in {{}, {"User-Agent"}} :
         fd = <<NewDo(o, method, keys)>>
    /\ rr = <<>>
    /\ srt = <<>>

\* the tail of Do: charset.NewReader reads the head of the body of a response
\* to a request other than HEAD that announces a length, when detection is on
WrapBody(d, res) ==
    IF /\ d.Method # "HEAD"
       /\ res.ContentLength > 0
       /\ d.f.charsetAutoDetect
       /\ ~res.readable
    THEN [d EXCEPT !.pc = "done", !.res = <<>>, !.err = "charset detection error"]
    ELSE [d EXCEPT !.pc = "done", !.res = <<res>>, !.err = "nil"]

\* one pass from the label RETRY: f.Client.Do(req), then the return or the jump
ClientDo ==
    /\ Len(fd) = 1
    /\ fd[1].pc = "RETRY"
    /\ Len(fd[1].log) < MaxDoAttempts
    /\ \E ans \in {[res |-> x, err |-> "nil"] : x \in ClientResponses}
                  \cup {[res |-> <<>>, err |-> e] : e \in ClientErrors} :
         LET d == [fd[1] EXCEPT !.log = Append(@, ans), !.times = TimesAtRetry(@)]
         IN fd' = <<IF ans.err # "nil"
                    THEN [d EXCEPT !.pc = "done", !.res = <<>>, !.err = ans.err]
                    ELSE IF /\ ans.res.StatusCode \in d.f.retryHTTPCodes
                            /\ UintLess(d.times, d.f.retryTimes)
                    THEN [d EXCEPT !.times = @ + 1]
                    ELSE WrapBody(d, ans.res)>>
    /\ UNCHANGED <<connVars, hdrVars, tripVars, ct, rr, srt>>

\* Do has returned; the caller calls it again with a new request
DoAgain ==
    /\ Len(fd) = 1
    /\ fd[1].pc = "done"
    /\ \E method \in {"GET", "HEAD"}, keys \in {{}, {"User-Agent"}} :
         fd' = <<NewDo(fd[1].opt, method, keys)>>
    /\ UNCHANGED <<connVars, hdrVars, tripVars, ct, rr, srt>>

NextDo == ClientDo \/ DoAgain

SpecDo == InitDo /\ [][NextDo]_vars

(***************************************************************************)
(* roundRobinProxy (package fetch): the proxies of a context, handed out   *)
(* in turn to the goroutines that send its requests.                       *)
(***************************************************************************)
\* x % n for a uint32 x and an n below 2^15
U32Mod(x, n) == ((x[1] % n) * (65536 % n) + x[2]) % n

\* x - 1 on uint32: wraps modulo 2^32
U32Dec(x) == U32Add(x, U32Max)

\* r.index when the calls looked at begin: 0, as newRoundRobinProxy leaves it,
\* and, 2^32 - 2 and 2^32 - 1 calls later, the values before its wrap-around
StartIndexes == {U32(0), <<65535, 65534>>, U32Max}

\* &roundRobinProxy{parsedProxyURLs, 0} with n URLs, some calls later; the
\* URLs are written by their positions 0..n-1
newRoundRobinProxy(n, index) ==
    [proxyURLs |-> n,
     index |-> index,
     start |-> index,        \* r.index when the calls looked at began
     order |-> <<>>,         \* the positions handed out, in the order of the atomic adds
     g |-> [i \in 1..MaxCallers |-> [pc |-> "idle", index |-> U32(0), url |-> <<>>]]]

InitProxy ==
    /\ ConnIdle
    /\ rt = <<>>
    /\ strm = <<>>
    /\ pool = {}
    /\ dec = <<>>
    /\ ct = <<>>
    /\ fd = <<>>
    /\ \E n \in 1..MaxProxies, index \in StartIndexes : rr = <<newRoundRobinProxy(n, index)>>
    /\ srt = <<>>

\* index := atomic.AddUint32(&r.index, 1) - 1, in the goroutine i
AtomicAdd(i) ==
    /\ Len(rr) = 1
    /\ rr[1].g[i].pc = "idle"
    /\ Len(rr[1].order) < MaxProxyCalls
    /\ LET new == U32Add(rr[1].index, U32(1))
           index == U32Dec(new)
       IN rr' = <<[rr[1] EXCEPT !.index = new,
                                !.order = Append(@, U32Mod(index, rr[1].proxyURLs)),
                                !.g[i] = [pc |-> "added", index |-> index, url |-> <<>>]]>>
    /\ UNCHANGED <<connVars, hdrVars, tripVars, ct, fd, srt>>

\* return r.proxyURLs[index%uint32(len(r.proxyURLs))], nil
ReturnProxy(i) ==
    /\ Len(rr) = 1
    /\ rr[1].g[i].pc = "added"
    /\ rr' = <<[rr[1] EXCEPT !.g[i].pc = "idle",
                             !.g[i].url = <<U32Mod(rr[1].g[i].index, rr[1].proxyURLs)>>]>>
    /\ UNCHANGED <<connVars, hdrVars, tripVars, ct, fd, srt>>

NextProxy == \E i \in 1..MaxCallers : AtomicAdd(i) \/ ReturnProxy(i)

SpecProxy == InitProxy /\ [][NextProxy]_vars

(***************************************************************************)
(* The pooled headerSorter and the slice sortedKeyValues returns: goroutines *)
(* that encode headers on different connections of the process.            *)
(***************************************************************************)

\* the goroutines that encode headers, each on a connection of its own
Encoders == 1..MaxEncoders

\* new(headerSorter): kvs is nil, order is nil
NewSorter == [kvs |-> [arr |-> 0, len |-> 0], order |-> <<>>]

\* cap(sorter.kvs); arrays are the backing arrays made so far, arr 0 is nil
CapOf(arrays, sorter) == IF sorter.kvs.arr = 0 THEN 0 ELSE Len(arrays[sorter.kvs.arr])

\* the backing array of kvs = sorter.kvs[:0] after the appends: a new array when
\* cap(sorter.kvs) < len(header), the sorter's own array otherwise
ArrayOf(arrays, sorter, n) ==
    IF CapOf(arrays, sorter) < n THEN Len(arrays) + 1 ELSE sorter.kvs.arr

\* the arrays after elems have been written to the first places of array a
WriteArray(arrays, a, elems) ==
    IF a = 0 THEN arrays
    ELSE IF a > Len(arrays) THEN Append(arrays, elems)
    ELSE [arrays EXCEPT ![a] =
            [p \in 1..Len(@) |-> IF p <= Len(elems) THEN elems[p] ELSE @[p]]]

\* no goroutine is inside encodeHeaders
IdleEncoder == [pc |-> "idle", req |-> <<>>, sorter |-> <<>>, pos |-> 0, seen |-> <<>>]

InitSorter ==
    /\ opt \in PoolOptions
    /\ req = <<>>
    /\ lastKvs = <<>>
    /\ wire = <<>>
    /\ wires = {}
    /\ vlog = [count |-> 0, last |-> <<>>]
    /\ t2 = ZeroTransport
    /\ cc = NewConn("h2")
    /\ pc = "ready"
    /\ net = <<>>
    /\ done = NoDone
    /\ henc = {}
    /\ encErr = "nil"
    /\ rt = <<>>
    /\ strm = <<>>
    /\ pool = {}
    /\ dec = <<>>
    /\ ct = <<>>
    /\ fd = <<>>
    /\ rr = <<>>
    /\ srt = <<[headerSorterPool |-> {}, arrays |-> <<>>, sorts |-> 0,
                g |-> [i \in Encoders |-> IdleEncoder]]>>

\* goroutine i enters sortedKeyValues or sortedKeyValuesBy: Get, the new array
\* when the sorter's is too small, the appends of the range over the map, and
\* sorter.order of sortedKeyValuesBy
SorterFill(i) ==
    /\ srt[1].g[i].pc = "idle"
    /\ srt[1].sorts < MaxSorts
    /\ \E o \in PoolOptions, r \in PoolRequests :
       \E iter \in Perms(DOMAIN r.Header), s \in srt[1].headerSorterPool \cup {NewSorter} :
         LET n == Len(iter)
             a == ArrayOf(srt[1].arrays, s, n)
         IN  srt' = <<[srt[1] EXCEPT
                 !.headerSorterPool = @ \ {s},
                 !.arrays = WriteArray(@, a, RangeHeader(r.Header, iter)),
                 !.sorts = @ + 1,
                 !.g[i] = [pc |-> "sorting", req |-> <<r>>,
                           sorter |-> <<[kvs |-> [arr |-> a, len |-> n],
                                         order |-> OrderAfter(o, s.order)]>>,
                           pos |-> 0, seen |-> <<>>]]>>
    /\ UNCHANGED <<connVars, hdrVars, tripVars, ct, fd, rr>>

\* sort.Sort(sorter), the return of kvs and the deferred Put: the sorter lies in
\* the pool again, or the pool has dropped it, while the caller holds kvs
SorterReturn(i) ==
    /\ srt[1].g[i].pc = "sorting"
    /\ \E kept \in BOOLEAN :
         LET s == srt[1].g[i].sorter[1]
             sorted == IF s.kvs.arr = 0 THEN <<>>
                       ELSE SortSort(s.order, SubSeq(srt[1].arrays[s.kvs.arr], 1, s.kvs.len))
         IN  /\ kept => Cardinality(srt[1].headerSorterPool \cup {s}) <= MaxPooled
             /\ srt' = <<[srt[1] EXCEPT
                   !.headerSorterPool = IF kept THEN @ \cup {s} ELSE @,
                   !.arrays = WriteArray(@, s.kvs.arr, sorted),
                   !.g[i].pc = "iterating"]>>
    /\ UNCHANGED <<connVars, hdrVars, tripVars, ct, fd, rr>>

\* one round of `for _, kv := range kvs` in enumerateHeaders: the element of
\* the backing array at the next place of the slice is read
SorterIterate(i) ==
    /\ srt[1].g[i].pc = "iterating"
    /\ srt[1].g[i].pos < srt[1].g[i].sorter[1].kvs.len
    /\ srt' = <<[srt[1] EXCEPT
          !.g[i].pos = @ + 1,
          !.g[i].seen = Append(@, srt[1].arrays[srt[1].g[i].sorter[1].kvs.arr][srt[1].g[i].pos + 1])]>>
    /\ UNCHANGED <<connVars, hdrVars, tripVars, ct, fd, rr>>

\* the loop over kvs is over and encodeHeaders goes on without the slice
SorterDone(i) ==
    /\ srt[1].g[i].pc = "iterating"
    /\ srt[1].g[i].pos = srt[1].g[i].sorter[1].kvs.len
    /\ srt' = <<[srt[1] EXCEPT !.g[i] = IdleEncoder]>>
    /\ UNCHANGED <<connVars, hdrVars, tripVars, ct, fd, rr>>

NextSorter ==
    \E i \in Encoders :
        SorterFill(i) \/ SorterReturn(i) \/ SorterIterate(i) \/ SorterDone(i)

SpecSorter == InitSorter /\ [][NextSorter]_vars

(***************************************************************************)
(* Properties of the header pipeline (checked under SpecHeaders).          *)
(***************************************************************************)
\* encodeHeaders has written the fields of the current request at least once
Encoded == Len(req) = 1 /\ wires # {}

\* a pseudo-header field: its name starts with ':'
IsPseudo(f) == Len(f.name) > 0 /\ f.name[1] = 58

IsCookie(f) == f.name = S_cookie

FieldNames(fs) == [i \in 1..Len(fs) |-> fs[i].name]

KeysOf(s) == [i \in 1..Len(s) |-> s[i].key]

\* s comes before t in byte-wise lexicographic order
LexBefore(s, t) ==
    \E i \in 1..(Len(t)) :
        /\ i <= Len(s) + 1
        /\ \A j \in 1..(i - 1) : s[j] = t[j]
        /\ (i = Len(s) + 1 \/ s[i] < t[i])

\* C1: for one Options and one request, every encodeHeaders call writes the same
\* sequence of wire fields, whatever order the range over the header map takes,
\* also when two keys differ only in letter case or share a rank.
C1_SameWireForEveryIterationOrder == Cardinality(wires) <= 1

\* the request header k is listed: its lower-cased name is an entry of HeaderOrder
Listed(k) == ToLower(k) \in Range(opt.HeaderOrder)

\* the list position of a listed header (the last one, if the entry is repeated)
ListPosition(k) ==
    CHOOSE i \in 1..Len(opt.HeaderOrder) :
        /\ opt.HeaderOrder[i] = ToLower(k)
        /\ \A j \in (i + 1)..Len(opt.HeaderOrder) : opt.HeaderOrder[j] # ToLower(k)

RecognizedTokens == {S_authority, S_method, S_path, S_scheme}

\* the token p is recognized and applies to the request r
Applies(p, r) ==
    p \in RecognizedTokens /\ ~(r.Method = S_CONNECT /\ p \in {S_path, S_scheme})

\* the value the pseudo-header p carries for the request r
PseudoValue(p, r) ==
    IF p = S_authority THEN (IF r.Host = <<>> THEN r.URL.Host ELSE r.Host)
    ELSE IF p = S_method THEN (IF r.Method = <<>> THEN S_GET ELSE r.Method)
    ELSE IF p = S_path THEN r.URL.RequestURI
    ELSE r.URL.Scheme

\* the first n fields of fs are pseudo-headers named names, with the values of
\* the request r, and no later field is a pseudo-header
PseudoPrefix(fs, names, r) ==
    /\ Len(fs) >= Len(names)
    /\ \A i \in 1..Len(names) : fs[i] = Field(names[i], PseudoValue(names[i], r))
    /\ \A i \in (Len(names) + 1)..Len(fs) : ~IsPseudo(fs[i])

\* C3: with a non-empty PHeaderOrder, the pseudo-headers on the wire are the
\* recognized tokens of PHeaderOrder that apply to the request, in list order;
\* unrecognized tokens are skipped, a CONNECT request has no :path and no :scheme,
\* and every pseudo-header precedes every regular header.
C3_PseudoHeadersFollowPHeaderOrder ==
    (Encoded /\ opt.PHeaderOrder # <<>>) =>
        PseudoPrefix(wire, SelectSeq(opt.PHeaderOrder, LAMBDA p : Applies(p, req[1])), req[1])

\* a CONNECT request has been encoded under a PHeaderOrder that lists :path
\* first: only :method and :authority went out, in list order, before accept
C3_ConnectUnderPHeaderOrder ==
    /\ Encoded
    /\ req[1].Method = S_CONNECT
    /\ opt.PHeaderOrder = <<S_path, S_method, S_authority>>
    /\ Len(wire) >= 3
    /\ FieldNames(SubSeq(wire, 1, 3)) = <<S_method, S_authority, S_accept>>

\* C4: with an empty PHeaderOrder, the pseudo-headers go out in the fixed order
\* :authority, :method, :path, :scheme, and a CONNECT request omits :path and
\* :scheme (it keeps :method).
C4_DefaultPseudoOrder ==
    (Encoded /\ opt.PHeaderOrder = <<>>) =>
        PseudoPrefix(wire,
                     IF req[1].Method = S_CONNECT THEN <<S_authority, S_method>>
                     ELSE <<S_authority, S_method, S_path, S_scheme>>,
                     req[1])

\* a CONNECT request has been encoded under an empty PHeaderOrder
C4_ConnectUnderDefaultOrder ==
    /\ Encoded
    /\ opt.PHeaderOrder = <<>>
    /\ req[1].Method = S_CONNECT
    /\ FieldNames(SelectSeq(wire, IsPseudo)) = <<S_authority, S_method>>

\* C4 as the specification words it: with an empty PHeaderOrder the order is
\* :authority, :method, :path, :scheme, and a CONNECT request omits :method and
\* :scheme.
C4_ConnectOmitsMethodAndScheme ==
    (Encoded /\ opt.PHeaderOrder = <<>>) =>
        FieldNames(SelectSeq(wire, IsPseudo)) =
            IF req[1].Method = S_CONNECT THEN <<S_authority, S_path>>
            ELSE <<S_authority, S_method, S_path, S_scheme>>

\* the cookie-pairs of one Cookie value, read left to right: a pair ends at ';',
\* the spaces after a ';' belong to no pair, and nothing follows the last ';'
\* when only spaces do
RECURSIVE CookiePairs(_, _, _, _)
CookiePairs(v, i, pair, afterSemi) ==
    IF i > Len(v) THEN (IF pair # <<>> THEN <<pair>> ELSE <<>>)
    ELSE IF v[i] = 59 THEN <<pair>> \o CookiePairs(v, i + 1, <<>>, TRUE)
    ELSE IF v[i] = 32 /\ afterSemi THEN CookiePairs(v, i + 1, pair, TRUE)
    ELSE CookiePairs(v, i + 1, Append(pair, v[i]), FALSE)

RECURSIVE AllCookiePairs(_)
AllCookiePairs(values) ==
    IF Len(values) = 0 THEN <<>>
    ELSE CookiePairs(Head(values), 1, <<>>, FALSE) \o AllCookiePairs(Tail(values))

\* the values of the request's Cookie header
CookieValues(r) == IF K_Cookie \in DOMAIN r.Header THEN r.Header[K_Cookie] ELSE <<>>

\* the values of the cookie fields on the wire, in order
CookieWire == LET cs == SelectSeq(wire, IsCookie) IN [i \in 1..Len(cs) |-> cs[i].value]

\* C5: the Cookie values go out as one cookie field per cookie-pair, in the
\* left-to-right order of the pairs and of the values; 'a=1; b=2' gives exactly
\* cookie: a=1 then cookie: b=2; no cookie field on the wire contains ';'.
C5_CookieSplitPerPair ==
    Encoded =>
        /\ CookieWire = AllCookiePairs(CookieValues(req[1]))
        /\ \A i \in 1..Len(CookieWire) : 59 \notin Range(CookieWire[i])
        /\ CookieValues(req[1]) = <<V_a1_b2>> => CookieWire = <<V_a1, V_b2>>

\* the Cookie header 'a=1; b=2' has gone out as two fields
C5_TwoPairsTwoFields ==
    /\ Encoded
    /\ CookieValues(req[1]) = <<V_a1_b2>>
    /\ CookieWire = <<V_a1, V_b2>>

(***************************************************************************)
(* Properties of Setting.Valid (checked under SpecValid).                  *)
(***************************************************************************)
\* the settings the rule of section 6.5.2 refuses
RefusedByRule(s) ==
    \/ s.ID = SettingEnablePush /\ s.Val \notin {U32(0), U32(1)}
    \/ s.ID = SettingInitialWindowSize /\ U32Less(U32(2147483647), s.Val)
    \/ s.ID = SettingMaxFrameSize
       /\ (U32Less(s.Val, U32(16384)) \/ U32Less(U32(16777215), s.Val))

\* C6: Setting.Valid returns an error exactly for ENABLE_PUSH outside {0, 1},
\* INITIAL_WINDOW_SIZE above 2^31-1 and MAX_FRAME_SIZE below 16384 or above
\* 2^24-1; every other setting is accepted, MAX_FRAME_SIZE = 16384 and
\* MAX_FRAME_SIZE = 2^24-1 among them.
C6_ValidRefusesExactlyTheRule ==
    \A i \in 1..Len(vlog.last) :
        LET c == vlog.last[i]
        IN /\ (c.err # "nil") <=> RefusedByRule(c.setting)
           /\ (c.setting.ID = SettingMaxFrameSize
               /\ c.setting.Val \in {U32(16384), U32(16777215)}) => c.err = "nil"

\* Valid has refused MAX_FRAME_SIZE = 16383, one below the floor
C6_BelowFloorRefused ==
    vlog.last = <<[setting |-> [ID |-> SettingMaxFrameSize, Val |-> U32(16383)],
                   err |-> "PROTOCOL_ERROR"]>>

(***************************************************************************)
(* Properties of the handshake (checked under SpecConn).                   *)
(***************************************************************************)
FrameTypes(frames) == [i \in 1..Len(frames) |-> frames[i].type]

IsPrefix(s, u) == Len(s) <= Len(u) /\ \A i \in 1..Len(s) : s[i] = u[i]

\* C7: a Transport whose Options.Settings holds an invalid setting is refused
\* before any connection is dialed: when newClientConn returns the validation
\* error, no dial and no TLS handshake has taken place.
C7_RefusedBeforeDial ==
    pc = "settingErr" => ("dial" \notin Range(net) /\ "tls" \notin Range(net))

\* what an h2 handshake with n PRIORITY entries writes
HandshakeTypes(n) ==
    <<"PREFACE", "SETTINGS", "WINDOW_UPDATE">> \o [i \in 1..n |-> "PRIORITY"]

\* C8: on an h2 connection newClientConn writes the preface, one SETTINGS frame,
\* one connection-level WINDOW_UPDATE frame, then the PRIORITY frames, flushes
\* them, and only after the flush starts the read loop, once; the read loop
\* never runs before the flush.
C8_HandshakeThenOneReadLoop ==
    LET n == Cardinality(DOMAIN opt.PriorityParams)
    IN /\ IsPrefix(FrameTypes(cc.bw), HandshakeTypes(n))
       /\ cc.readLoops <= 1
       /\ pc = "flushed" => (FrameTypes(cc.sent) = HandshakeTypes(n) /\ cc.readLoops = 0)
       /\ pc = "ready" => cc.readLoops = 1
       /\ "readLoop" \in Range(net) => cc.readLoops = 1
       /\ cc.readLoops = 1 =>
            /\ cc.proto = "h2"
            /\ FrameTypes(cc.sent) = HandshakeTypes(n)
            /\ cc.sent[3].stream = 0
            /\ cc.bw = <<>>
            /\ net = <<"dial", "tls", "flush", "readLoop">>

\* a handshake with two PRIORITY entries is over and its read loop runs
C8_ReadLoopAfterFullHandshake ==
    /\ pc = "ready"
    /\ cc.readLoops = 1
    /\ Len(cc.sent) = 5

\* the PRIORITY orders of the connections this Transport has made ready
PriorityOrdersSeen ==
    done.prios \cup (IF pc = "ready" THEN {PriorityIDs(cc.sent)} ELSE {})

\* C9: every connection of a Transport carries one PRIORITY frame per configured
\* entry, and the frames are in the same order on every connection.
C9_SamePriorityOrderOnEveryConnection ==
    /\ \A o \in PriorityOrdersSeen :
         /\ Len(o) = Cardinality(DOMAIN opt.PriorityParams)
         /\ Range(o) = DOMAIN opt.PriorityParams
    /\ Cardinality(PriorityOrdersSeen) <= 1

\* C10: the connection-level WINDOW_UPDATE carries Options.WindowSizeIncrement
\* when that is > 0 and 2^30 otherwise, and the local connection receive window
\* is 65535 plus that increment.
C10_WindowIsDefaultPlusIncrement ==
    pc \in {"priority", "flushed", "ready"} =>
        LET incr == IF opt.WindowSizeIncrement # U32(0) THEN opt.WindowSizeIncrement
                    ELSE U32(1073741824)
            wu == (cc.sent \o cc.bw)[3]
        IN /\ wu.type = "WINDOW_UPDATE"
           /\ wu.stream = 0
           /\ wu.incr = incr
           /\ cc.inflow >= 65535
           /\ cc.inflow - 65535 = incr[1] * 65536 + incr[2]

(***************************************************************************)
(* The initial SETTINGS frame (checked under SpecConn).                    *)
(***************************************************************************)
\* the SETTINGS frames the framer was given: they sit in the write buffer until a
\* flush empties it (a failed flush leaves the buffer as it was)
SettingsFrames ==
    SelectSeq(IF cc.bw # <<>> THEN cc.bw ELSE cc.sent, LAMBDA f : f.type = "SETTINGS")

IDsOf(settings) == [i \in 1..Len(settings) |-> settings[i].ID]

\* the optional entries of the default list, in the only orders it allows
OptionalDefaultIDs ==
    {<<>>, <<SettingMaxFrameSize>>, <<SettingMaxHeaderListSize>>, <<SettingHeaderTableSize>>,
     <<SettingMaxFrameSize, SettingMaxHeaderListSize>>,
     <<SettingMaxFrameSize, SettingHeaderTableSize>>,
     <<SettingMaxHeaderListSize, SettingHeaderTableSize>>,
     <<SettingMaxFrameSize, SettingMaxHeaderListSize, SettingHeaderTableSize>>}

\* the decoder table size the Transport is configured with: 4096 unless set
TableSizeOf(tr) ==
    IF tr.MaxDecoderHeaderTableSize = U32(0) THEN U32(4096) ELSE tr.MaxDecoderHeaderTableSize

\* C11: with a non-empty Options.Settings the initial SETTINGS frame carries
\* exactly the caller's pairs in the caller's order; with an empty one it carries
\* ENABLE_PUSH=0, INITIAL_WINDOW_SIZE, then optionally MAX_FRAME_SIZE and
\* MAX_HEADER_LIST_SIZE, and HEADER_TABLE_SIZE exactly when the table size is
\* not 4096.
C11_SettingsFrameIsCallersOrDefault ==
    /\ Len(SettingsFrames) <= 1
    /\ \A i \in 1..Len(SettingsFrames) :
         LET s == SettingsFrames[i].settings
         IN IF Len(opt.Settings) # 0
            THEN s = opt.Settings
            ELSE /\ Len(s) >= 2
                 /\ s[1] = [ID |-> SettingEnablePush, Val |-> U32(0)]
                 /\ s[2].ID = SettingInitialWindowSize
                 /\ IDsOf(SubSeq(s, 3, Len(s))) \in OptionalDefaultIDs
                 /\ (SettingHeaderTableSize \in Range(IDsOf(s)))
                      <=> (TableSizeOf(t2) # U32(4096))
                 /\ \A k \in 1..Len(s) :
                      s[k].ID = SettingHeaderTableSize => s[k].Val = TableSizeOf(t2)

\* a ready connection whose SETTINGS frame carries the caller's two pairs, in an
\* order the default list never has
C11_CallersPairsInCallersOrder ==
    /\ pc = "ready"
    /\ IDsOf(opt.Settings) = <<SettingMaxConcurrentStreams, SettingEnablePush>>
    /\ Len(SettingsFrames) = 1
    /\ SettingsFrames[1].settings = opt.Settings

(***************************************************************************)
(* A connection that did not negotiate h2 (checked under SpecConn).        *)
(***************************************************************************)
\* C12: on a connection whose TLS handshake negotiated another protocol than h2,
\* nothing of HTTP/2 is written (no preface, no SETTINGS, no WINDOW_UPDATE, no
\* PRIORITY), no read loop is started, and roundTrip serves the request by
\* downgrade, never by ClientConn.RoundTrip.
C12_NotHTTP2WritesNothingAndDowngrades ==
    (pc \in {"preface", "settings", "window", "priority", "flushed", "writeErr",
             "returned", "ready"} /\ cc.proto # "h2") =>
        /\ pc = "returned"
        /\ cc.bw = <<>>
        /\ cc.sent = <<>>
        /\ cc.readLoops = 0
        /\ "flush" \notin Range(net)
        /\ "readLoop" \notin Range(net)
        /\ cc.served \in {"", "downgrade"}

\* an http/1.1 connection has served its request by downgrade
C12_ServedByDowngrade ==
    /\ pc = "returned"
    /\ cc.proto = "http/1.1"
    /\ cc.served = "downgrade"
    /\ cc.sent = <<>>

(***************************************************************************)
(* Properties of the retry loop (checked under SpecRetry).                 *)
(***************************************************************************)
Call == rt[1]

\* the attempts that went to a connection, in order
Attempts == SelectSeq(Call.log, LAMBDA out : out.via # "GetClientConn")

\* C13: a call of roundTrip whose attempts all fail and are all judged retryable
\* makes at most 8 attempts, 7 retries: the first retry at once, six after a
\* backoff of 1, 2, 4, 8, 16 and 32 seconds; the error of the eighth attempt is
\* returned.
C13_AtMostSevenRetries ==
    /\ Call.attempts <= 8
    /\ Call.retry <= 7
    /\ Len(Call.backoffs) <= 6
    /\ \A i \in 1..Len(Call.backoffs) : Call.backoffs[i] = 2 ^ (i - 1)
    /\ Call.attempts = 8 =>
         /\ Call.pc = "returned"
         /\ Call.res = NoResponse => Call.err = Attempts[8].err
         /\ Attempts[8].err # "nil" => Call.res = NoResponse

\* eight attempts have failed, never cancelled, and the error is returned
C13_EighthAttemptFails ==
    /\ Call.attempts = 8
    /\ ~Call.ctxDone
    /\ \A i \in 1..8 : Call.log[i].err = "connReset"
    /\ Call.pc = "returned"
    /\ Call.err = "connReset"
    /\ Call.res = NoResponse

\* C13 as stated: at most 6 retries, 7 attempts in total.
C13_AtMostSixRetries ==
    /\ Call.attempts <= 7
    /\ Call.retry <= 6

\* C14: an attempt that returns a response ends the call: roundTrip returns that
\* response with a nil error, whatever its status code, and makes no further
\* attempt; so when the first attempt fails with a transport error and the
\* second succeeds, the second attempt's response is what the caller gets.
C14_SuccessEndsTheCall ==
    \A i \in 1..Len(Attempts) :
        Attempts[i].err = "nil" =>
            /\ i = Len(Attempts)
            /\ Call.pc = "returned"
            /\ Call.res = <<[status |-> Attempts[i].status, attempt |-> i]>>
            /\ Call.err = "nil"

\* the first attempt failed with a transport error, the second brought a 503,
\* and the 503 response is returned
C14_SecondAttemptServerError ==
    /\ Call.pc = "returned"
    /\ Call.attempts = 2
    /\ Call.log[1].err = "connReset"
    /\ Call.log[2].status = 503
    /\ Call.res = <<[status |-> 503, attempt |-> 2]>>
    /\ Call.err = "nil"

\* C15: when the context is cancelled while roundTrip waits for the backoff
\* timer, roundTrip stops waiting and returns a nil response and the context's
\* error, without another attempt.
C15_CancelledWaitReturnsCtxErr ==
    Call.cancelledWaiting > 0 =>
        /\ Call.pc \in {"ctxWoken", "returned"}
        /\ Call.attempts = Call.cancelledWaiting
        /\ Call.pc = "returned" => (Call.res = NoResponse /\ Call.err = "Canceled")

\* cancelled in the wait after the third attempt, roundTrip has returned
C15_CancelledAfterThirdAttempt ==
    /\ Call.cancelledWaiting = 3
    /\ Call.pc = "returned"
    /\ Call.err = "Canceled"
    /\ Call.res = NoResponse

(***************************************************************************)
(* The cancellation race of ClientConn.RoundTrip (checked under SpecStream).*)
(***************************************************************************)
\* C16: when cs.respHeaderRecv was already signalled at the moment the context
\* was cancelled, RoundTrip returns the response and not the cancellation error,
\* in every interleaving, the wait inside waitDone included.
C16_ResponseWinsOverCancel ==
    (strm[1].pc = "returned" /\ strm[1].recvAtCancel) =>
        /\ strm[1].err # "Canceled"
        /\ (~strm[1].abort /\ ~strm[1].reqCancel) => strm[1].res # NoResponse

(***************************************************************************)
(* The header list size limit (checked under SpecEncoder).                 *)
(***************************************************************************)
\* the sum of len(name) + len(value) + 32 over the fields of a request without
\* trailers or body on the plain Transport: the four pseudo-headers, one field
\* per Accept value, one per Cookie pair, and the default User-Agent
ExpectedSize(r) ==
    SumSize(<<Field(S_authority, S_example), Field(S_method, r.Method),
              Field(S_path, S_slash), Field(S_scheme, S_https),
              Field(S_user_agent, defaultUserAgent)>>)
    + (IF K_Accept \in DOMAIN r.Header
       THEN FieldSize(Field(S_accept, V_html)) + FieldSize(Field(S_accept, V_any)) ELSE 0)
    + (IF K_Cookie \in DOMAIN r.Header
       THEN FieldSize(Field(S_cookie, V_a1)) + FieldSize(Field(S_cookie, V_b2)) ELSE 0)

\* the last encodeHeaders call of the current request was refused
Refused == Encoded /\ encErr = "errRequestHeaderListSize"

\* C17: for a request that passes the checks encodeHeaders starts with (those of
\* EncoderRequests), encodeHeaders fails with
\* errRequestHeaderListSize exactly when the summed
\* size of the fields exceeds the peer's maximum header list size; a refused
\* call writes no field to the HPACK encoder, whose state stays what it was for
\* the requests that follow on the connection.
C17_OversizedHeaderListRefused ==
    /\ []((Encoded /\ req[1] \in EncoderRequests) =>
            /\ encErr \in {"nil", "errRequestHeaderListSize"}
            /\ Refused <=> (cc.peerMaxHeaderListSize # MaxUint64
                            /\ ExpectedSize(req[1]) > cc.peerMaxHeaderListSize)
            /\ Refused => wire = <<>>
            /\ ~Refused => (wire # <<>> /\ Range(wire) \subseteq henc))
    /\ [][encErr' = "errRequestHeaderListSize" => henc' = henc]_vars

\* on a connection whose encoder holds the fields of an earlier request, a
\* request one byte over the peer's limit has been refused
C17_RefusedAfterAnEarlierRequest ==
    /\ Refused
    /\ henc # {}
    /\ ExpectedSize(req[1]) = cc.peerMaxHeaderListSize + 1
    /\ wire = <<>>

(***************************************************************************)
(* The User-Agent field (checked under SpecHeaders).                       *)
(***************************************************************************)
\* the user-agent fields among fs
UAFields(fs) == SelectSeq(fs, LAMBDA f : f.name = S_user_agent)

\* the keys of the request header map that are User-Agent in some letter case
UAKeys(r) == {k \in DOMAIN r.Header : ToLower(k) = S_user_agent}

\* the User-Agent keys whose first value is there and not empty
UAKeysWithValue(r) ==
    {k \in UAKeys(r) : Len(r.Header[k]) >= 1 /\ r.Header[k][1] # <<>>}

C19_PooledSorterSortsLexicographically ==
    (Len(req) = 1 /\ opt.HeaderOrder = <<>>) =>
        /\ Len(lastKvs) = Cardinality(DOMAIN req[1].Header)
        /\ \A i \in 1..(Len(lastKvs) - 1) : StrLess(lastKvs[i].key, lastKvs[i + 1].key)

(***************************************************************************)
(* Decoding the response (checked under SpecDecode).                       *)
(***************************************************************************)
\* C20: Transport.RoundTrip decodes the body only when the Transport itself added
\* Accept-Encoding; a response to a request that already carried Accept-Encoding
\* is returned with its body not uncompressed and its Content-Encoding intact.
C20_DecodesOnlyWhatItAskedFor ==
    (dec[1].pc = "returned" /\ dec[1].res # <<>> /\ ~dec[1].added) =>
        /\ ~dec[1].res[1].Uncompressed
        /\ dec[1].res[1].readers = <<>>
        /\ dec[1].res[1].ContentEncoding = dec[1].got[1].ContentEncoding

(***************************************************************************)
(* The peer's limits before its SETTINGS frame (checked under SpecConn).   *)
(***************************************************************************)
\* newClientConn has made the ClientConn and the read loop, the only reader of
\* the peer's frames, has not been started: no SETTINGS of the peer was processed
BeforePeerSettings ==
    /\ pc \in {"preface", "settings", "window", "priority", "flushed", "returned"}
    /\ cc.readLoops = 0

\* C21: until the peer's SETTINGS frame arrives, the connection's
\* maxConcurrentStreams is the sentinel initialMaxConcurrentStreams (100), its
\* peer initial stream window is 65535 and its peer max frame size is 16384,
\* whatever the client advertises in Options.Settings.
C21_PeerLimitsAreDefaultsBeforePeerSettings ==
    BeforePeerSettings =>
        /\ cc.maxConcurrentStreams = U32(100)
        /\ cc.initialWindowSize = U32(65535)
        /\ cc.maxFrameSize = U32(16384)

(***************************************************************************)
(* CacheTransport (checked under SpecCache).                               *)
(***************************************************************************)
CT == ct[1]

\* the step in which CacheTransport.RoundTrip is called
CallBegins == ct # <<>> /\ CT.pc = "idle" /\ ct'[1].pc # "idle"

\* C22: under the RFC2616 policy, a GET or HEAD request without a Range header,
\* for which the cache holds a response whose Vary headers match and that
\* getFreshness finds fresh, is answered with the cached response (marked with
\* X-From-Cache when MarkCachedResponses is set); the underlying transport is
\* not called and the cache is left as it was.
C22_FreshHitSkipsTransport ==
    /\ [][(CallBegins /\ CT.Policy = "rfc2616") =>
            LET r == ct'[1].caller[1]
                entry == CT.cache[cacheKey(r)]
            IN (/\ r.Method \in {"GET", "HEAD"}
                /\ r.Header["Range"] = <<>>
                /\ entry # <<>>
                /\ varyMatches(entry[1], r.Header)
                /\ getFreshness(entry[1].Header, r.Header, ct'[1].now) = fresh)
               => /\ ct'[1].pc = "done"
                  /\ ct'[1].err = "nil"
                  /\ ct'[1].sent = <<>>
                  /\ ct'[1].res # <<>>
                  /\ ct'[1].res[1].StatusCode = entry[1].StatusCode
                  /\ \A h \in HeaderNames \ {"X-From-Cache"} :
                        ct'[1].res[1].Header[h] = entry[1].Header[h]
                  /\ CT.MarkCachedResponses => ct'[1].res[1].Header["X-From-Cache"] = <<"1">>
                  /\ ct'[1].cache = CT.cache]_vars
    /\ [][(ct # <<>> /\ CT.pc = "done") => ct'[1].pc # "transport"]_vars

\* a second call, an unconditional GET, found an entry that had not outlived its
\* max-age and returned it without a call of the underlying transport
C22_SecondGetServedFromCache ==
    /\ ct # <<>>
    /\ CT.Policy = "rfc2616"
    /\ CT.pc = "done"
    /\ CT.calls = 2
    /\ CT.caller[1] = [Method |-> "GET", URL |-> "/a", Header |-> NoHeader]
    /\ CT.freshness = <<fresh>>
    /\ CT.sent = <<>>
    /\ CT.res # <<>>
    /\ CT.res[1].Header["X-From-Cache"] = <<"1">>
    /\ CT.res[1].Header["Etag"] = <<"v1">>

\* a call under the RFC2616 policy that found a stale entry has returned
StaleCallDone ==
    /\ ct # <<>>
    /\ CT.Policy = "rfc2616"
    /\ CT.pc = "done"
    /\ CT.freshness = <<stale>>
    /\ Len(CT.sent) = 1

\* the validator the forwarded request must carry: the caller's own when the
\* caller supplied one, else the cached response's, else none
ExpectedValidator(callerValue, cachedValue) ==
    IF callerValue # <<>> THEN callerValue ELSE cachedValue

\* the forwarded request carries the validators
C23_ValidatorsForwarded ==
    StaleCallDone =>
        /\ CT.sent[1].Header["If-None-Match"] =
              ExpectedValidator(CT.caller[1].Header["If-None-Match"],
                                CT.cachedResp[1].Header["Etag"])
        /\ CT.sent[1].Header["If-Modified-Since"] =
              ExpectedValidator(CT.caller[1].Header["If-Modified-Since"],
                                CT.cachedResp[1].Header["Last-Modified"])

\* the caller's request and its header map are as the caller built them
C23_CallerRequestUntouched ==
    StaleCallDone => CT.maps[1] = CT.caller[1].Header

\* a 304 makes RoundTrip return the cached response
C23_NotModifiedReturnsCached ==
    (StaleCallDone /\ CT.answer[1].err = "nil" /\ CT.answer[1].resp.StatusCode = 304) =>
        /\ CT.err = "nil"
        /\ CT.res # <<>>
        /\ CT.res[1].StatusCode = CT.cachedResp[1].StatusCode
        /\ CT.res[1].Header["X-From-Cache"] = CT.cachedResp[1].Header["X-From-Cache"]
        /\ CT.res[1].Header["Etag"] = CT.cachedResp[1].Header["Etag"]

\* C23: when the cached response is stale, the request forwarded to the
\* underlying transport carries the cached response's validators unless the
\* caller supplied them, the caller's request and header map are unmodified,
\* and a 304 answer makes RoundTrip return the cached response.
C23_StaleEntryIsRevalidated ==
    /\ C23_ValidatorsForwarded
    /\ C23_CallerRequestUntouched
    /\ C23_NotModifiedReturnsCached

\* C24: under the Dummy policy, once a request has completed successfully, a
\* later request with the same method and URL (here: the very same request,
\* headers included) is answered from the cache: it never reaches the
\* underlying transport.
C24_DummyAnswersRepeatsFromCache ==
    (/\ ct # <<>>
     /\ CT.Policy = "dummy"
     /\ CT.caller # <<>>
     /\ CT.pc = "transport")
    => CT.caller[1] \notin CT.completed

(***************************************************************************)
(* The retry of Fetch.Do (checked under SpecDo).                           *)
(***************************************************************************)
Do == fd[1]

\* the status codes of the answers f.Client.Do gave, an error counting as 0
StatusLog == [i \in 1..Len(Do.log) |->
                IF Do.log[i].err = "nil" THEN Do.log[i].res.StatusCode ELSE 0]

\* the first n answers carried a status of RetryHTTPCodes
FirstRetryable(n) ==
    /\ n <= Len(Do.log)
    /\ \A i \in 1..n : StatusLog[i] \in Do.f.retryHTTPCodes

\* C25: when the first n answers (n <= Options.RetryTimes) carry a status of
\* RetryHTTPCodes and the next answer is a 200 whose body can be read, Do
\* returns that 200 response and a nil error; Do never returns a response with
\* a status of RetryHTTPCodes after fewer than RetryTimes retries.
C25_RetriesUntilOK ==
    (fd # <<>> /\ Do.pc = "done") =>
        LET n == Len(Do.log) - 1
            last == Do.log[Len(Do.log)]
        IN /\ (/\ n <= Do.opt.RetryTimes
               /\ FirstRetryable(n)
               /\ last.err = "nil"
               /\ last.res.StatusCode = 200
               /\ last.res.readable)
              => (Do.err = "nil" /\ Do.res = <<last.res>>)
           /\ (Do.res # <<>> /\ Do.res[1].StatusCode \in Do.f.retryHTTPCodes)
              => n >= Do.opt.RetryTimes

\* TestRetry: three answers 500, then 200, with newFetcherDefault's RetryTimes
C25_ThreeFailuresThenOK ==
    /\ fd # <<>>
    /\ Do.pc = "done"
    /\ Do.opt.RetryTimes = DefaultRetryTimes
    /\ StatusLog = <<500, 500, 500, 200>>
    /\ Do.err = "nil"
    /\ Do.res # <<>>
    /\ Do.res[1].StatusCode = 200

(***************************************************************************)
(* The abort race of ClientConn.RoundTrip (checked under SpecStream).      *)
(***************************************************************************)
\* C26: when the select of RoundTrip has taken the case of cs.abort and the
\* inner select finds cs.respHeaderRecv closed too, RoundTrip returns the
\* response and a nil error, never cs.abortErr; it returns cs.abortErr only
\* when the inner select found cs.respHeaderRecv open.
C26_ResponseWinsOverAbort ==
    strm[1].pc = "returned" =>
        /\ strm[1].recvAtAbort => (strm[1].res # NoResponse /\ strm[1].err = "nil")
        /\ strm[1].waitFor = "abort" => ~strm[1].recvAtAbort

(***************************************************************************)
(* The spaces after a ';' of a Cookie value (checked under SpecHeaders).   *)
(***************************************************************************)
\* strings.Split(v, ";"): the segments between the semicolons
RECURSIVE Segments(_, _)
Segments(v, seg) ==
    IF v = <<>> THEN <<seg>>
    ELSE IF Head(v) = 59 THEN <<seg>> \o Segments(Tail(v), <<>>)
    ELSE Segments(Tail(v), Append(seg, Head(v)))

\* s without its leading spaces, and s without one leading space
RECURSIVE TrimSpaces(_)
TrimSpaces(s) == IF s # <<>> /\ Head(s) = 32 THEN TrimSpaces(Tail(s)) ELSE s

TrimOneSpace(s) == IF s # <<>> /\ Head(s) = 32 THEN Tail(s) ELSE s

\* the fields of one Cookie value whose segments after a ';' are trimmed by
\* Trim: the first segment goes out as it is, and a last segment that is empty
\* goes out not at all
TrimmedSegments(v, Trim(_)) ==
    LET segs == Segments(v, <<>>)
        out == [i \in 1..Len(segs) |-> IF i = 1 THEN segs[i] ELSE Trim(segs[i])]
    IN IF out[Len(out)] = <<>> THEN SubSeq(out, 1, Len(out) - 1) ELSE out

\* a request with one Cookie value has been encoded
OneCookieEncoded == Encoded /\ Len(CookieValues(req[1])) = 1

\* C27, as the code has it: every space that follows a ';' is trimmed, so that
\* no segment after a ';' goes out with a leading space ('a=1;  b=2' with two
\* spaces gives 'a=1' and 'b=2'); the first segment goes out unchanged.
C27_EverySpaceAfterSemicolonTrimmed ==
    OneCookieEncoded =>
        /\ CookieWire = TrimmedSegments(CookieValues(req[1])[1], TrimSpaces)
        /\ CookieValues(req[1]) = <<V_a1__b2>> => CookieWire = <<V_a1, V_b2>>

\* 'a=1;  b=2' has gone out as 'a=1' and 'b=2'
C27_TwoSpacesBothTrimmed ==
    /\ OneCookieEncoded
    /\ CookieValues(req[1]) = <<V_a1__b2>>
    /\ CookieWire = <<V_a1, V_b2>>

\* C27, as stated: exactly one leading space is trimmed from each segment that
\* follows a ';' ('a=1;  b=2' gives 'a=1' and ' b=2').
C27_OneSpaceAfterSemicolonTrimmed ==
    OneCookieEncoded =>
        /\ CookieWire = TrimmedSegments(CookieValues(req[1])[1], TrimOneSpace)
        /\ CookieValues(req[1]) = <<V_a1__b2>> => CookieWire = <<V_a1, V_sb2>>

(***************************************************************************)
(* The letter case of the HeaderOrder entries (checked under SpecHeaders). *)
(***************************************************************************)
\* the positions of the HeaderOrder entries that equal k ignoring letter case
FoldPositions(k) ==
    {i \in 1..Len(opt.HeaderOrder) : ToLower(opt.HeaderOrder[i]) = ToLower(k)}

\* C28: a request header whose name equals a HeaderOrder entry ignoring letter
\* case is ranked by that entry, whatever the letter case of the key and of the
\* entry: it goes before every header that equals no entry, and two such headers
\* go in the order of their entries.
C28_RankLookupIgnoresLetterCase ==
    (Encoded /\ opt.HeaderOrder # <<>>) =>
        \A i, j \in 1..Len(lastKvs) :
            i < j =>
                LET pi == FoldPositions(lastKvs[i].key)
                    pj == FoldPositions(lastKvs[j].key)
                IN /\ ~(pi = {} /\ pj # {})
                   /\ (pi # {} /\ pj # {}) => \E a \in pi, b \in pj : a <= b

(***************************************************************************)
(* The ways newClientConn ends (checked under SpecConn).                   *)
(***************************************************************************)
\* newClientConn is over and has not returned a ClientConn
NewClientConnFailed == cc.returns \notin {"", "cc, nil"}

\* C29: when newClientConn fails it returns an error and no ClientConn, and no
\* read loop was started for the connection; when the error is that of a
\* setting that is not valid, nothing was written to the connection, neither
\* to its buffered writer nor to the socket.
C29_FailureReturnsErrorOnly ==
    NewClientConnFailed =>
        /\ cc.returns = "nil, err"
        /\ cc.err # "nil"
        /\ cc.readLoops = 0
        /\ "readLoop" \notin Range(net)
        /\ pc = "settingErr" => (cc.bw = <<>> /\ cc.sent = <<>>)

(***************************************************************************)
(* Requests that are not valid (checked under SpecEncoder).                *)
(***************************************************************************)
\* the control characters no header value may hold
ControlChars == ((0..31) \ {9}) \cup {127}

\* the request r has no URL, a header name that is no token, a header value with
\* a control character, or (unless it is a CONNECT) a :path that neither starts
\* with '/' nor is "*"
InvalidRequest(r) ==
    \/ r.URL = NilURL
    \/ \E k \in DOMAIN r.Header :
          \/ k = <<>>
          \/ Range(k) \ TokenChars # {}
          \/ \E i \in 1..Len(r.Header[k]) : Range(r.Header[k][i]) \cap ControlChars # {}
    \/ r.Method # S_CONNECT /\ PathOf(r) # <<42>> /\ (PathOf(r) = <<>> \/ Head(PathOf(r)) # 47)

\* C30: for a request with a header name or a header value that is not valid,
\* with a :path that is not valid or without a URL, encodeHeaders returns an
\* error and has written no field to the HPACK encoder: nothing of the request
\* is on the wire, and the encoder is in the state the earlier requests of the
\* connection left it in.
C30_InvalidRequestWritesNothing ==
    /\ []((Encoded /\ InvalidRequest(req[1])) =>
            /\ encErr \in {"errNilRequestURL", "invalid request :path",
                           "invalid HTTP header name", "invalid HTTP header value"}
            /\ wire = <<>>
            /\ wires = {<<>>})
    /\ [][(Len(req) = 1 /\ InvalidRequest(req[1])) => henc' = henc]_vars

\* on a connection whose encoder holds the fields of an earlier request, a
\* request with a valid Accept header and a Dnt value that holds CR LF has been
\* refused
C30_BadValueAfterAnEarlierRequest ==
    /\ Encoded
    /\ henc # {}
    /\ DOMAIN req[1].Header = {K_Accept, K_Dnt}
    /\ req[1].Header[K_Dnt] = <<V_1, V_crlf>>
    /\ encErr = "invalid HTTP header value"
    /\ wire = <<>>

(***************************************************************************)
(* only-if-cached (checked under SpecCache).                               *)
(***************************************************************************)
\* the call at hand is one of RoundTripRFC2616 for a request that carries
\* Cache-Control: only-if-cached
OnlyIfCachedCall ==
    /\ ct # <<>>
    /\ CT.Policy = "rfc2616"
    /\ CT.caller # <<>>
    /\ "only-if-cached" \in DOMAIN parseCacheControl(CT.caller[1].Header)

\* the cache held no response the request could be answered with: none under
\* its key, or one that varies on a header the request sends otherwise
NoUsableCachedResponse ==
    \/ CT.cachedResp = <<>>
    \/ ~varyMatches(CT.cachedResp[1], CT.caller[1].Header)

\* C31: a request with only-if-cached for which there is no usable cached
\* response never reaches the underlying transport, and its call returns the
\* 504 Gateway Timeout response and a nil error.
C31_OnlyIfCachedNeverCallsTransport ==
    (OnlyIfCachedCall /\ NoUsableCachedResponse) =>
        /\ CT.pc # "transport"
        /\ CT.sent = <<>>
        /\ CT.pc = "done" =>
             (CT.err = "nil" /\ CT.res # <<>> /\ CT.res[1].StatusCode = 504)

(***************************************************************************)
(* The delayed store of a GET response (checked under SpecCache).          *)
(***************************************************************************)
\* RoundTripRFC2616 has returned a storable GET response whose body has not
\* been read to EOF
BodyPending == ct # <<>> /\ CT.Policy = "rfc2616" /\ CT.pc = "done" /\ CT.onEOF # <<>>

\* C32: RoundTripRFC2616 returns a storable GET response without writing it or
\* anything else to the cache (it may have deleted the entry it found); while the body of the response is being read the cache changes only
\* at the Read that reaches EOF, which stores under the key of the request the
\* dump of the response with the whole body; a caller that closes the body
\* before EOF leaves the cache as it was.
C32_StoredOnlyAtEOF ==
    /\ [][(ct # <<>> /\ CT.pc # "done" /\ ct'[1].pc = "done" /\ ct'[1].onEOF # <<>>) =>
             /\ ct'[1].caller[1].Method = "GET"
             /\ ct'[1].onEOF[1].buf = <<>>
             /\ \A k \in CacheKeys : ct'[1].cache[k] \in {CT.cache[k], <<>>}]_vars
    /\ [][BodyPending =>
             \/ ct'[1].cache = CT.cache /\ ct'[1].dumped = <<>>
             \/ /\ CT.onEOF[1].buf = BodyOf(CT.res[1])
                /\ ct'[1].cache = [CT.cache EXCEPT ![cacheKey(CT.caller[1])] =
                                      <<CT.onEOF[1].resp>>]
                /\ CT.onEOF[1].resp = CT.res[1]
                /\ ct'[1].dumped = <<[key |-> cacheKey(CT.caller[1]), resp |-> CT.res[1],
                                      body |-> BodyOf(CT.res[1])]>>]_vars

\* a GET answered 200 by the server has been read to EOF and is in the cache
\* with its whole body
C32_ReadToEOFAndStored ==
    /\ ct # <<>>
    /\ CT.Policy = "rfc2616"
    /\ CT.pc = "done"
    /\ CT.caller[1].Method = "GET"
    /\ CT.sent # <<>>
    /\ CT.dumped # <<>>
    /\ CT.dumped[1].body = ResponseBody
    /\ CT.cache[cacheKey(CT.caller[1])] = <<CT.res[1]>>

(***************************************************************************)
(* The number of requests of one Fetch.Do (checked under SpecDo).          *)
(***************************************************************************)
\* C33: with a RetryTimes that is not negative, one call of Do makes at most
\* RetryTimes + 1 calls of f.Client.Do; a call whose every answer carries a
\* status of RetryHTTPCodes returns the last of them after RetryTimes retries.
C33_AtMostRetryTimesPlusOneRequests ==
    (fd # <<>> /\ Do.opt.RetryTimes >= 0) =>
        /\ Len(Do.log) <= Do.opt.RetryTimes + 1
        /\ (/\ Len(Do.log) = Do.opt.RetryTimes + 1
            /\ FirstRetryable(Len(Do.log)))
           => (Do.pc = "done" /\ Do.err = "nil" /\ Do.res = <<Do.log[Len(Do.log)].res>>)

(***************************************************************************)
(* The turn of the proxies (checked under SpecProxy).                      *)
(***************************************************************************)
RR == rr[1]

\* C34: the k-th call of getProxy, counted by the atomic adds, gets
\* proxyURLs[k mod n], whatever k: each call gets the proxy that follows, in the
\* cyclic order, the one its predecessor got, and no two goroutines hold the
\* same counter value at a time.
C34_KthCallGetsKthProxy ==
    rr # <<>> =>
        /\ \A j \in 1..Len(RR.order) :
             RR.order[j] = (U32Mod(RR.start, RR.proxyURLs) + j - 1) % RR.proxyURLs
        /\ \A j \in 1..(Len(RR.order) - 1) :
             RR.order[j + 1] = (RR.order[j] + 1) % RR.proxyURLs
        /\ \A a, b \in 1..MaxCallers :
             (a # b /\ RR.g[a].pc = "added" /\ RR.g[b].pc = "added")
             => RR.g[a].index # RR.g[b].index

\* C35: while a goroutine iterates the slice sortedKeyValues returned, no other
\* goroutine holds a sorter with the same backing array, and every element the
\* goroutine has read is a header of its own request, in the sorted order of
\* its own headers.
C35_EveryEncodeIteratesItsOwnHeaders ==
    srt # <<>> =>
      \A i \in Encoders :
        LET e == srt[1].g[i] IN
        e.pc = "iterating" =>
          /\ \A j \in 1..Len(e.seen) :
               /\ e.seen[j].key \in DOMAIN e.req[1].Header
               /\ e.seen[j].values = e.req[1].Header[e.seen[j].key]
          /\ \A j, k \in 1..Len(e.seen) : j # k => e.seen[j].key # e.seen[k].key
          /\ \A k \in Encoders \ {i} :
               (srt[1].g[k].pc # "idle" /\ e.sorter[1].kvs.arr # 0)
                 => srt[1].g[k].sorter[1].kvs.arr # e.sorter[1].kvs.arr

\* C36: when every entry of Options.Settings passes Setting.Valid, also one whose
\* ID lies outside 1..6, newClientConn goes through the handshake or returns an
\* error; it never stops with an index out of range while it records the
\* settings.
AllSettingsValid == \A j \in 1..Len(opt.Settings) : Valid(opt.Settings[j]) = "nil"

C36_ValidSettingsNeverIndexOutOfRange ==
    AllSettingsValid => (pc # "panic" /\ cc.returns # "panic")

\* C37: for every Options.WindowSizeIncrement the window newClientConn hands to
\* cc.inflow.init is 65535 plus the increment as a mathematical integer and lies
\* in 1..2^31-1: neither the unsigned addition nor the conversion to int32 wraps.
C37_WindowNeverWraps ==
    (pc \in {"priority", "flushed", "ready"} /\ opt.WindowSizeIncrement # U32(0)) =>
        /\ cc.inflow \in 1..2147483647
        /\ cc.inflow >= initialWindowSize
        /\ (cc.inflow - initialWindowSize) \div 65536 = opt.WindowSizeIncrement[1]
        /\ (cc.inflow - initialWindowSize) % 65536 = opt.WindowSizeIncrement[2]

\* how many fields of fs are named name
CountNamed(fs, name) == Len(SelectSeq(fs, LAMBDA f : f.name = name))

\* C38: for every request and every PHeaderOrder, also one that omits or repeats
\* a token, the header block has :method exactly once and :authority exactly
\* once, and for a request other than CONNECT :path and :scheme exactly once each.
C38_EachPseudoHeaderExactlyOnce ==
    Encoded =>
        /\ CountNamed(wire, S_method) = 1
        /\ CountNamed(wire, S_authority) = 1
        /\ req[1].Method # S_CONNECT =>
             (CountNamed(wire, S_path) = 1 /\ CountNamed(wire, S_scheme) = 1)

\* C39: newClientConn arms at most one idle timer for a connection and leaves
\* none armed when it returns an error.
C39_OneIdleTimerAndNoneAfterError ==
    /\ cc.idleTimers <= 1
    /\ NewClientConnFailed => cc.idleTimers = 0

\* the status codes of the responses the underlying transport returns
ServerStatusCodes == {x.StatusCode : x \in ServerResponses(0)}

\* C40: every value CacheTransport gives to Cache.Set is a dump of a response
\* the underlying transport returned; the 504 Gateway Timeout it makes up for
\* only-if-cached is never stored, so it is never found later under the key.
C40_SynthesizedGatewayTimeoutNeverStored ==
    (ct # <<>> /\ CT.Policy = "rfc2616") =>
        /\ \A k \in CacheKeys :
             CT.cache[k] # <<>> => CT.cache[k][1].StatusCode \in ServerStatusCodes
        /\ CT.dumped # <<>> => CT.dumped[1].resp.StatusCode \in ServerStatusCodes
        /\ CT.cachedResp # <<>> => CT.cachedResp[1].StatusCode \in ServerStatusCodes
====
